---- MODULE Spec2Model ----
(***************************************************************************)
(* Staged upload, promotion and range read of poly-tag-rocket.             *)
(*                                                                         *)
(* The database is modelled at READ COMMITTED: staging_files and files are *)
(* the committed tables, row_lock holds the row locks of open              *)
(* transactions, and the uncommitted changes of a transaction live in the  *)
(* locals of the request that runs it.  The two directories of             *)
(* LocalFileSystem are staging_dir and resident_dir, one byte sequence per *)
(* object.  Every await of a handler on which another request can be       *)
(* scheduled ends one step of the model.                                   *)
(***************************************************************************)
EXTENDS Integers, Sequences, FiniteSets, TLC

\* ---------------------------------------------------------------- bounds
\* MaxLen: the longest staging object; MaxOps: the requests started in a run
MaxLen == 2
MaxOps == 4

\* Ids are the ids requests can name; the database generates the ids of
\* Generated for new rows, the others stay unknown to it.
Ids == {"u1", "u2"}
Generated == {"u1"}
Procs == {"r1", "r2"}
Bytes == {1, 2}
Mimes == {"video/mp4"}
Name == "staging_file"

\* i64::MAX and u64::MAX, scaled to 8 bits.  The lengths of the objects of
\* Spec stay far below them; SizeSpec has objects and bodies that do not.
I64_MAX == 127
U64_MAX == 255
\* `n as i64` of a u64
AsI64(n) == IF n <= I64_MAX THEN n ELSE n - (U64_MAX + 1)

NoMime == "<none>"
OctetStream == "application/octet-stream"
Sniffed == "image/x-sniffed"

VARIABLES
  staging_files,  \* committed rows of table staging_files:
                  \*   id -> [name, mime, size, staged_at]
  files,          \* committed rows of table files: id -> [name, mime, size, hash]
  staging_dir,    \* objects under staging_path: id -> bytes
  resident_dir,   \* objects under resident_path: id -> bytes
  row_lock,       \* row locks of table staging_files: id -> holding request
  used,           \* ids the database has already generated
  should_copy_files, \* LocalFileSystem.should_copy_files
  pc,             \* position of each request handler
  loc,            \* arguments and locals of each request handler
  res,            \* what the step just taken returned to its caller, if anything
  inserted,       \* history: how many File rows were committed under each id
  ops,            \* number of requests started
  attempt,        \* the fill a client issues and re-issues: [id, offset, data, before]
  now,            \* the clock, in units of time
  sweeper,        \* the task remove_expired_staging_files_task and its locals
  shutdown        \* the fairing's on_shutdown and the stop signal it sends

vars == <<staging_files, files, staging_dir, resident_dir, row_lock, used,
          should_copy_files, pc, loc, res, inserted, ops, attempt,
          now, sweeper, shutdown>>

\* what the request handlers never write
others == <<attempt, now, sweeper, shutdown>>

\* ---------------------------------------------------------------- helpers
Max(a, b) == IF a < b THEN b ELSE a
Min(a, b) == IF a < b THEN a ELSE b

SeqsUpTo(n) == UNION {[1..k -> Bytes] : k \in 0..n}

Without(f, id) == [i \in (DOMAIN f) \ {id} |-> f[i]]
With(f, id, v) == [i \in (DOMAIN f) \cup {id} |-> IF i = id THEN v ELSE f[i]]

\* the bytes of object id of a directory, none when the object is absent
Content(dir, id) == IF id \in DOMAIN dir THEN dir[id] ELSE <<>>

\* seek(SeekFrom::Start(offset)) followed by io::copy of data: bytes at
\* offset .. offset + |data| are overwritten, the rest of the object stays.
SeekAndCopy_NoSeek(content, offset, data) ==
  [i \in 1..Max(Len(content), Len(data)) |->
     IF i <= Len(data) THEN data[i] ELSE content[i]]

SeekAndCopy_Append(content, offset, data) == content \o data

SeekAndCopy_Truncating(content, offset, data) ==
  [i \in 1..(offset + Len(data)) |->
     IF offset < i THEN data[i - offset] ELSE content[i]]

SeekAndCopy(content, offset, data) ==
  [i \in 1..Max(Len(content), offset + Len(data)) |->
     IF offset < i /\ i <= offset + Len(data) THEN data[i - offset] ELSE content[i]]

\* A header value is a sequence of characters.  NoHeader is a request without
\* the header.
NoHeader == [present |-> FALSE, value |-> <<>>]
Header(value) == [present |-> TRUE, value |-> value]

NoLoc == [id |-> "u1", offset |-> 0, data |-> <<>>, initial_file_size |-> 0,
          row |-> [name |-> Name, mime |-> NoMime, size |-> 0, staged_at |-> 0],
          file |-> [name |-> Name, mime |-> NoMime, size |-> 0, hash |-> 0],
          snap |-> <<>>, had |-> FALSE, fault |-> "none", header |-> NoHeader]

\* What a call returned: op is the call (create, fill, promote, remove_staging,
\* remove_file), kind is None, StagingFile, File, WriteError or Error, and
\* size is the size field of the returned row or error.
Ret(op, kind, id, err, size) ==
  [op |-> op, kind |-> kind, id |-> id, err |-> err, size |-> size]
Pending == Ret("", "Pending", "u1", "", 0)
RetNone(op, id) == Ret(op, "None", id, "", 0)
RetStaging(op, id, row) == Ret(op, "StagingFile", id, "", row.size)
RetWriteError(id, err, size) == Ret("fill", "WriteError", id, err, size)
RetFile(op, id, file) == Ret(op, "File", id, "", file.size)
RetError(op, id, err) == Ret(op, "Error", id, err, 0)

\* -------------------------------------------------- LocalFileSystem::write_staging
\* First half: open without truncating (creating the object when absent),
\* stat, and the three checks.  fault is the file operation that fails.
WriteOpenDir(dir, id, fault) ==
  IF fault = "open" \/ id \in DOMAIN dir THEN dir ELSE With(dir, id, <<>>)

WriteOpenResult(dir, id, offset, fault) ==
  LET initial_file_size == Len(WriteOpenDir(dir, id, fault)[id]) IN
  IF fault \in {"open", "stat"} THEN [ok |-> FALSE, err |-> "Write", file_size |-> 0]
  ELSE IF I64_MAX < initial_file_size
    THEN [ok |-> FALSE, err |-> "FileTooLarge", file_size |-> initial_file_size]
  ELSE IF initial_file_size < offset
    THEN [ok |-> FALSE, err |-> "OffsetExceedsFileSize", file_size |-> initial_file_size]
  ELSE IF I64_MAX < offset + initial_file_size
    THEN [ok |-> FALSE, err |-> "OffsetTooLarge", file_size |-> initial_file_size]
  ELSE [ok |-> TRUE, err |-> "", file_size |-> initial_file_size]

\* Second half: seek, copy, flush, stat again.  fault "copy" stops the copy
\* after k bytes; fault "restat" makes the second stat fail, and the code
\* then reports the initial size.
WriteCopyContent(content, offset, data, fault, k) ==
  IF fault = "seek" THEN content
  ELSE IF fault \in {"copy", "copy+restat"} THEN SeekAndCopy(content, offset, SubSeq(data, 1, k))
  ELSE SeekAndCopy(content, offset, data)

WriteCopyResult(content, offset, data, initial_file_size, fault, k) ==
  LET after == WriteCopyContent(content, offset, data, fault, k)
      file_size == IF fault \in {"restat", "copy+restat"} THEN initial_file_size ELSE Len(after)
  IN IF fault = "seek" THEN [ok |-> FALSE, err |-> "Write", file_size |-> initial_file_size]
     ELSE IF fault \in {"copy", "copy+restat"} THEN [ok |-> FALSE, err |-> "Write", file_size |-> file_size]
     ELSE [ok |-> TRUE, err |-> "", file_size |-> AsI64(file_size)]

OpenFaults == {"none", "open", "stat"}
CopyFaults == {"none", "seek", "copy", "restat", "copy+restat"}

\* ---------------------------------------------------------------- Init
NoAttempt == [id |-> "u1", offset |-> 0, data |-> <<>>, before |-> <<>>]

\* StagingFileRemover::new: no task spawned, no stop signal sent
NoSweeper == [pc |-> "unborn", sleep_left |-> 0, expiration_time |-> 0, ids |-> <<>>]
NoShutdown == [pc |-> "idle", stop_signal |-> FALSE, late |-> 0]
NotLaunched == now = 0 /\ sweeper = NoSweeper /\ shutdown = NoShutdown

Init ==
  /\ staging_files = << >>
  /\ files = << >>
  /\ staging_dir = << >>
  /\ resident_dir = << >>
  /\ row_lock = << >>
  /\ used = {}
  /\ should_copy_files \in BOOLEAN
  /\ pc = [p \in Procs |-> "idle"]
  /\ loc = [p \in Procs |-> NoLoc]
  /\ res = Pending
  /\ inserted = [id \in Ids |-> 0]
  /\ ops = 0
  /\ attempt = NoAttempt
  /\ NotLaunched

Start(p) == pc[p] = "idle" /\ ops < MaxOps /\ ops' = ops + 1
Finish(p, r) ==
  /\ pc' = [pc EXCEPT ![p] = "idle"]
  /\ loc' = [loc EXCEPT ![p] = NoLoc]
  /\ res' = r

\* history kept with a transaction: the staging object as it was when the
\* transaction took the row lock
Locked(l) == [l EXCEPT !.snap = Content(staging_dir, l.id),
                       !.had = l.id \in DOMAIN staging_dir]

\* ------------------------------------ StagingFileService::create_staging_file
CreateStagingFile(p, mime) ==
  /\ Start(p)
  /\ \E id \in Generated \ used :
       LET row == [name |-> Name, mime |-> mime, size |-> 0, staged_at |-> now] IN
       /\ used' = used \cup {id}
       /\ staging_files' = With(staging_files, id, row)
       /\ res' = RetStaging("create", id, row)
  /\ UNCHANGED <<files, staging_dir, resident_dir, row_lock, should_copy_files, pc, loc, inserted>>
  /\ UNCHANGED others

\* -------------------------------- StagingFileService::fill_staging_file_by_id
\* SELECT ... FOR UPDATE waits while another transaction holds the row, and
\* returns no row when no committed row exists.
ForUpdateWaits_Plain(id) == FALSE

ForUpdateWaits(id) == id \in DOMAIN row_lock

\* A statement that has to wait leaves its request at `at` with arguments l.
Wait(p, l, at) ==
  /\ pc' = [pc EXCEPT ![p] = at]
  /\ loc' = [loc EXCEPT ![p] = l]
  /\ res' = Pending
  /\ UNCHANGED <<staging_files, files, staging_dir, resident_dir, row_lock, used,
                 should_copy_files, inserted>>

SelectForUpdate_RowAssumed(p, l) ==
  /\ row_lock' = With(row_lock, l.id, p)
  /\ pc' = [pc EXCEPT ![p] = "fill_open"]
  /\ loc' = [loc EXCEPT ![p] = Locked(l)]
  /\ res' = Pending
  /\ UNCHANGED <<staging_files, files, staging_dir, resident_dir, used, should_copy_files,
                 inserted>>

\* the SELECT ... FOR UPDATE of a fill with arguments l, once it need not wait
SelectForUpdate(p, l) ==
  /\ IF l.id \in DOMAIN staging_files
       THEN /\ row_lock' = With(row_lock, l.id, p)
            /\ pc' = [pc EXCEPT ![p] = "fill_open"]
            /\ loc' = [loc EXCEPT ![p] = Locked(l)]
            /\ res' = Pending
       ELSE /\ Finish(p, RetNone("fill", l.id))
            /\ UNCHANGED row_lock
  /\ UNCHANGED <<staging_files, files, staging_dir, resident_dir, used, should_copy_files,
                 inserted>>

FillBegin(p, id, offset) ==
  LET l == [NoLoc EXCEPT !.id = id, !.offset = offset] IN
  /\ Start(p)
  /\ IF ForUpdateWaits(id) THEN Wait(p, l, "fill_select") ELSE SelectForUpdate(p, l)
  /\ UNCHANGED others

FillSelect(p) ==
  /\ pc[p] = "fill_select"
  /\ ~ForUpdateWaits(loc[p].id)
  /\ SelectForUpdate(p, loc[p])
  /\ UNCHANGED ops
  /\ UNCHANGED others

\* write_staging up to its checks.  A WriteError is returned as Ok(Err(err)):
\* the transaction commits without having updated the row.
FillOpen(p) ==
  /\ pc[p] = "fill_open"
  /\ \E fault \in OpenFaults :
       LET id == loc[p].id
           r == WriteOpenResult(staging_dir, id, loc[p].offset, fault) IN
       /\ staging_dir' = WriteOpenDir(staging_dir, id, fault)
       /\ IF r.ok
            THEN /\ pc' = [pc EXCEPT ![p] = "fill_copy"]
                 /\ loc' = [loc EXCEPT ![p].initial_file_size = r.file_size]
                 /\ res' = Pending /\ UNCHANGED row_lock
            ELSE /\ Finish(p, RetWriteError(id, r.err, r.file_size))
                 /\ row_lock' = Without(row_lock, id)
  /\ UNCHANGED <<staging_files, files, resident_dir, used, should_copy_files, inserted, ops>>
  /\ UNCHANGED others

\* write_staging from its seek on; data is what the request body stream yields
FillCopy(p, data) ==
  /\ pc[p] = "fill_copy"
  /\ loc[p].offset + Len(data) <= MaxLen
  /\ \E fault \in CopyFaults, k \in 0..MaxLen :
       LET id == loc[p].id
           content == Content(staging_dir, id)
           r == WriteCopyResult(content, loc[p].offset, data,
                                loc[p].initial_file_size, fault, k) IN
       /\ IF fault \in {"copy", "copy+restat"} THEN k <= Len(data) ELSE k = 0
       /\ staging_dir' = With(staging_dir, id,
                               WriteCopyContent(content, loc[p].offset, data, fault, k))
       /\ IF r.ok
            THEN /\ pc' = [pc EXCEPT ![p] = "fill_update"]
                 /\ loc' = [loc EXCEPT ![p].row = [staging_files[id] EXCEPT !.size = r.file_size],
                                       ![p].data = data,
                                       ![p].fault = fault]
                 /\ res' = Pending /\ UNCHANGED row_lock
            ELSE /\ Finish(p, RetWriteError(id, r.err, r.file_size))
                 /\ row_lock' = Without(row_lock, id)
  /\ UNCHANGED <<staging_files, files, resident_dir, used, should_copy_files, inserted, ops>>
  /\ UNCHANGED others

\* UPDATE ... SET size, then COMMIT; when either statement fails the
\* transaction is rolled back and the error returned
FillUpdate(p) ==
  /\ pc[p] = "fill_update"
  /\ \E db_fails \in BOOLEAN :
       IF db_fails
         THEN /\ Finish(p, RetError("fill", loc[p].id, "Diesel"))
              /\ UNCHANGED staging_files
         ELSE /\ staging_files' = [staging_files EXCEPT ![loc[p].id].size = loc[p].row.size]
              /\ Finish(p, RetStaging("fill", loc[p].id, loc[p].row))
  /\ row_lock' = Without(row_lock, loc[p].id)
  /\ UNCHANGED <<files, staging_dir, resident_dir, used, should_copy_files, inserted, ops>>
  /\ UNCHANGED others

\* ------------------------------------------ LocalFileSystem::read_staging
ReadStaging(dir, id) == id \in DOMAIN dir

\* ---------------------------------------------- compute_file_mime, hash
\* Content sniffing, with the generic binary type as the fallback.
ComputeFileMime(content) ==
  IF Len(content) > 0 /\ content[1] = 2 THEN Sniffed ELSE OctetStream

RECURSIVE ComputeFileHash(_)
ComputeFileHash(content) ==
  IF content = <<>> THEN 0
  ELSE (3 * ComputeFileHash(SubSeq(content, 1, Len(content) - 1)) + content[Len(content)]) % 64

\* ---------------------------------------- LocalFileSystem::commit_staging
\* Copy then remove when should_copy_files, rename otherwise.  fault:
\* "copy_open" the copy fails before the resident object is opened, "copy" it
\* fails after k bytes, "remove" the removal of the staging copy fails (which
\* is not propagated), "rename" the rename fails.
CommitFaults == IF should_copy_files THEN {"none", "copy_open", "copy", "remove"}
                ELSE {"none", "rename"}

\* tokio::fs::copy: the destination is created or truncated and receives the
\* bytes of the source, which stays
FsCopy_Short(from_dir, to_dir, id) ==
  With(to_dir, id, SubSeq(from_dir[id], 1, Len(from_dir[id]) - 1))

FsCopy(from_dir, to_dir, id) == With(to_dir, id, from_dir[id])
\* tokio::fs::remove_file
FsRemoveFile(dir, id) == Without(dir, id)
\* tokio::fs::rename: the object appears under the destination, replacing
\* what was there, and is gone from the source
FsRenameTo(from_dir, to_dir, id) == With(to_dir, id, from_dir[id])

FsRenameFrom_Linked(from_dir, id) == from_dir

FsRenameFrom(from_dir, id) == Without(from_dir, id)

\* copy and rename also fail when the staging object does not exist
CommitStagingOk(id, fault) ==
  id \in DOMAIN staging_dir /\ fault \notin {"copy_open", "copy", "rename"}

CommitStagingResident_Empty(id, fault, k) ==
  IF id \notin DOMAIN staging_dir \/ fault \in {"copy_open", "rename"} THEN resident_dir
  ELSE With(resident_dir, id, <<>>)

CommitStagingResident(id, fault, k) ==
  IF id \notin DOMAIN staging_dir \/ fault \in {"copy_open", "rename"} THEN resident_dir
  ELSE IF fault = "copy" THEN With(resident_dir, id, SubSeq(staging_dir[id], 1, k))
  ELSE IF should_copy_files THEN FsCopy(staging_dir, resident_dir, id)
  ELSE FsRenameTo(staging_dir, resident_dir, id)

CommitStagingStaging_AlwaysRemoves(id, fault) == Without(staging_dir, id)

CommitStagingStaging(id, fault) ==
  IF fault # "none" THEN staging_dir
  ELSE IF should_copy_files THEN FsRemoveFile(staging_dir, id)
  ELSE FsRenameFrom(staging_dir, id)

\* ------------------------------ FileService::create_file_from_staging_file_id
\* DELETE ... RETURNING waits for the row lock.  Run inside the transaction
\* of promotion it leaves the committed table as it is until COMMIT.
DeleteWaits_Never(id) == FALSE

DeleteWaits(id) == id \in DOMAIN row_lock

DeleteInTransaction_Autocommit(table, id) == Without(table, id)

DeleteInTransaction(table, id) == table

CommitDelete_KeepsRow(table, id) == table

CommitDelete(table, id) == Without(table, id)

\* remove_staging_file_by_id(staging_file_id, Some(db), false), once its
\* DELETE need not wait
DeleteForPromotion(p, id) ==
  /\ IF id \in DOMAIN staging_files
       THEN /\ staging_files' = DeleteInTransaction(staging_files, id)
            /\ row_lock' = With(row_lock, id, p)
            /\ pc' = [pc EXCEPT ![p] = "promote_read"]
            /\ loc' = [loc EXCEPT ![p] = [Locked([NoLoc EXCEPT !.id = id])
                                            EXCEPT !.row = staging_files[id]]]
            /\ res' = Pending
       ELSE /\ Finish(p, RetNone("promote", id))
            /\ UNCHANGED <<staging_files, row_lock>>
  /\ UNCHANGED <<files, staging_dir, resident_dir, used, should_copy_files, inserted>>

PromoteBegin(p, id) ==
  /\ Start(p)
  /\ IF DeleteWaits(id) THEN Wait(p, [NoLoc EXCEPT !.id = id], "promote_delete")
                        ELSE DeleteForPromotion(p, id)
  /\ UNCHANGED others

PromoteDelete(p) ==
  /\ pc[p] = "promote_delete"
  /\ ~DeleteWaits(loc[p].id)
  /\ DeleteForPromotion(p, loc[p].id)
  /\ UNCHANGED ops
  /\ UNCHANGED others

\* An error return rolls the transaction back: the row lock is released and
\* the committed tables stay as they were.
Rollback_LeavesLock(p, err) ==
  /\ UNCHANGED row_lock
  /\ Finish(p, RetError("promote", loc[p].id, err))

Rollback(p, err) ==
  /\ row_lock' = Without(row_lock, loc[p].id)
  /\ Finish(p, RetError("promote", loc[p].id, err))

InspectFaults == {"none", "read_staging", "metadata", "hash"}

\* the File row made of the staging row and of the staging object: the
\* declared MIME type when there is one, else the computed one
CreatingFile_SniffsMime(staging_file, content) ==
  [name |-> staging_file.name,
   mime |-> ComputeFileMime(content),
   size |-> Len(content),
   hash |-> ComputeFileHash(content)]

CreatingFile(staging_file, content) ==
  [name |-> staging_file.name,
   mime |-> IF staging_file.mime # NoMime THEN staging_file.mime
            ELSE ComputeFileMime(content),
   size |-> Len(content),
   hash |-> ComputeFileHash(content)]

\* read_staging, metadata, compute_mime and compute_hash
PromoteInspect(p) ==
  /\ pc[p] = "promote_read"
  /\ \E fault \in InspectFaults :
       LET id == loc[p].id IN
       IF fault = "read_staging" THEN Rollback(p, "IO")
       ELSE IF ~ReadStaging(staging_dir, id) THEN Rollback(p, "FileNotYetFilled")
       ELSE IF fault = "metadata" THEN Rollback(p, "IO")
       ELSE IF fault = "hash" THEN Rollback(p, "ComputeHash")
       ELSE /\ pc' = [pc EXCEPT ![p] = "promote_insert"]
            /\ loc' = [loc EXCEPT ![p].file = CreatingFile(loc[p].row, staging_dir[id])]
            /\ res' = Pending /\ UNCHANGED row_lock
  /\ UNCHANGED <<staging_files, files, staging_dir, resident_dir, used, should_copy_files,
                 inserted, ops>>
  /\ UNCHANGED others

\* INSERT INTO files inside the transaction of promotion: the committed table
\* stays as it is until COMMIT.
InsertInTransaction_Autocommit(table, id, row) == With(table, id, row)

InsertInTransaction(table, id, row) == table

\* INSERT INTO files, then commit_staging
PromoteCommitStaging(p) ==
  /\ pc[p] = "promote_insert"
  /\ \E insert_fails \in BOOLEAN, fault \in CommitFaults, k \in 0..MaxLen :
       LET id == loc[p].id IN
       /\ IF fault = "copy" /\ ~insert_fails THEN k < Len(Content(staging_dir, id)) ELSE k = 0
       /\ insert_fails => fault = "none"
       /\ IF insert_fails \/ id \in DOMAIN files
            THEN /\ Rollback(p, "Diesel")
                 /\ UNCHANGED <<files, staging_dir, resident_dir>>
            ELSE /\ files' = InsertInTransaction(files, id, loc[p].file)
                 /\ staging_dir' = CommitStagingStaging(id, fault)
                 /\ resident_dir' = CommitStagingResident(id, fault, k)
                 /\ IF CommitStagingOk(id, fault)
                      THEN /\ pc' = [pc EXCEPT ![p] = "promote_commit"]
                           /\ loc' = [loc EXCEPT ![p].fault = fault]
                           /\ res' = Pending /\ UNCHANGED row_lock
                      ELSE Rollback(p, "IO")
  /\ UNCHANGED <<staging_files, used, should_copy_files, inserted, ops>>
  /\ UNCHANGED others

\* COMMIT: the deletion of the staging row and the new File row become visible
\* When the COMMIT fails the transaction is rolled back, after commit_staging.
PromoteCommit(p) ==
  /\ pc[p] = "promote_commit"
  /\ \E db_fails \in BOOLEAN :
       IF db_fails
         THEN /\ Rollback(p, "Diesel")
              /\ UNCHANGED <<staging_files, files, inserted>>
         ELSE /\ staging_files' = CommitDelete(staging_files, loc[p].id)
              /\ files' = With(files, loc[p].id, loc[p].file)
              /\ inserted' = [inserted EXCEPT ![loc[p].id] = @ + 1]
              /\ row_lock' = Without(row_lock, loc[p].id)
              /\ Finish(p, RetFile("promote", loc[p].id, loc[p].file))
  /\ UNCHANGED <<staging_dir, resident_dir, used, should_copy_files, ops>>
  /\ UNCHANGED others

\* ---------------- StagingFileService::remove_staging_file_by_id (cancellation)
\* DELETE in autocommit mode, then remove_staging with its result ignored.
DeleteForRemoval(p, id) ==
  /\ IF id \in DOMAIN staging_files
       THEN /\ staging_files' = Without(staging_files, id)
            /\ pc' = [pc EXCEPT ![p] = "remove_staging"]
            /\ loc' = [loc EXCEPT ![p] = [NoLoc EXCEPT !.id = id, !.row = staging_files[id]]]
            /\ res' = Pending
       ELSE /\ Finish(p, RetNone("remove_staging", id))
            /\ UNCHANGED staging_files
  /\ UNCHANGED <<files, staging_dir, resident_dir, row_lock, used, should_copy_files,
                 inserted>>

RemoveStagingBegin(p, id) ==
  /\ Start(p)
  /\ IF DeleteWaits(id) THEN Wait(p, [NoLoc EXCEPT !.id = id], "remove_delete")
                        ELSE DeleteForRemoval(p, id)
  /\ UNCHANGED others

RemoveStagingDelete(p) ==
  /\ pc[p] = "remove_delete"
  /\ ~DeleteWaits(loc[p].id)
  /\ DeleteForRemoval(p, loc[p].id)
  /\ UNCHANGED ops
  /\ UNCHANGED others

\* LocalFileSystem::remove_staging: remove_file, which can fail
RemoveStaging_Truncates(dir, id, fails) ==
  IF fails THEN dir ELSE With(dir, id, <<>>)

RemoveStaging(dir, id, fails) ==
  IF fails THEN dir ELSE Without(dir, id)

RemoveStagingData(p) ==
  /\ pc[p] = "remove_staging"
  /\ \E fails \in BOOLEAN :
       staging_dir' = RemoveStaging(staging_dir, loc[p].id, fails)
  /\ Finish(p, RetStaging("remove_staging", loc[p].id, loc[p].row))
  /\ UNCHANGED <<staging_files, files, resident_dir, row_lock, used, should_copy_files,
                 inserted, ops>>
  /\ UNCHANGED others

\* ------------------------------------------- FileService::remove_file_by_id
\* DELETE FROM files in autocommit mode
RemoveFile(p, id) ==
  /\ Start(p)
  /\ IF id \in DOMAIN files
       THEN /\ files' = Without(files, id)
            /\ pc' = [pc EXCEPT ![p] = "remove_file"]
            /\ loc' = [loc EXCEPT ![p] = [NoLoc EXCEPT !.id = id, !.file = files[id]]]
            /\ res' = Pending
       ELSE /\ res' = RetNone("remove_file", id)
            /\ UNCHANGED <<files, pc, loc>>
  /\ UNCHANGED <<staging_files, staging_dir, resident_dir, row_lock, used, should_copy_files,
                 inserted>>
  /\ UNCHANGED others

RemoveFileData(p) ==
  /\ pc[p] = "remove_file"
  /\ \E fails \in BOOLEAN :
       resident_dir' = IF fails THEN resident_dir ELSE Without(resident_dir, loc[p].id)
  /\ Finish(p, RetFile("remove_file", loc[p].id, loc[p].file))
  /\ UNCHANGED <<staging_files, files, staging_dir, row_lock, used, should_copy_files,
                 inserted, ops>>
  /\ UNCHANGED others

\* ------------------------------------------------- LocalFileSystem::read
Full == [kind |-> "Full", start |-> 0, end |-> 0]
StartAt(s) == [kind |-> "Start", start |-> s, end |-> 0]
Range(s, e) == [kind |-> "Range", start |-> s, end |-> e]
Suffix(n) == [kind |-> "Suffix", start |-> n, end |-> 0]

ReadData(data) == [kind |-> "Data", err |-> "", data |-> data]
ReadError(err) == [kind |-> "Error", err |-> err, data |-> <<>>]
ReadNone == [kind |-> "None", err |-> "", data |-> <<>>]

\* the bytes a reader positioned after `skip` bytes yields, at most `take`
Stream(content, skip, take) ==
  SubSeq(content, skip + 1, Min(Len(content), skip + take))

\* end - start + 1 in u64: when start exceeds end + 1 a build without
\* overflow checks wraps to a length beyond any file size
TakeLen(start, end, file_size) ==
  IF start <= end + 1 THEN end - start + 1 ELSE file_size

ReadStart_Lenient(content, start) ==
  IF Len(content) < start THEN ReadError("RangeStartExceedsFileSize")
  ELSE ReadData(Stream(content, start, Len(content)))

ReadStart(content, start) ==
  IF Len(content) <= start THEN ReadError("RangeStartExceedsFileSize")
  ELSE ReadData(Stream(content, start, Len(content)))

ReadInclusive_EndExcluded(content, start, end) ==
  IF Len(content) <= end THEN ReadError("RangeEndExceedsFileSize")
  ELSE ReadData(Stream(content, start, end - start))

ReadInclusive(content, start, end) ==
  IF Len(content) <= end THEN ReadError("RangeEndExceedsFileSize")
  ELSE ReadData(Stream(content, start, TakeLen(start, end, Len(content))))

ReadSuffix_Rejects(content, suffix) ==
  IF Len(content) < suffix THEN ReadError("RangeStartExceedsFileSize")
  ELSE ReadData(Stream(content, Len(content) - suffix, Len(content)))

ReadSuffix(content, suffix) ==
  ReadData(Stream(content, Len(content) - Min(suffix, Len(content)), Len(content)))

Read(dir, id, read_range) ==
  IF id \notin DOMAIN dir THEN ReadNone
  ELSE CASE read_range.kind = "Full" -> ReadData(dir[id])
         [] read_range.kind = "Start" -> ReadStart(dir[id], read_range.start)
         [] read_range.kind = "Range" ->
              ReadInclusive(dir[id], read_range.start, read_range.end)
         [] read_range.kind = "Suffix" -> ReadSuffix(dir[id], read_range.start)

\* read with the file operation that fails: open (for a reason other than
\* the object being absent), metadata, or the seek of a partial read
ReadFaults == {"none", "open", "metadata", "seek"}

DriverRead(dir, id, read_range, fault) ==
  IF fault = "open" THEN ReadError("Read")
  ELSE IF id \notin DOMAIN dir THEN ReadNone
  ELSE IF fault = "metadata" THEN ReadError("Read")
  ELSE LET r == Read(dir, id, read_range) IN
       IF fault = "seek" /\ read_range.kind # "Full" /\ r.kind = "Data"
         THEN ReadError("Read") ELSE r

\* A build with overflow checks panics on end - start + 1 when start > end.
ReadPanics(dir, id, read_range, fault) ==
  /\ read_range.kind = "Range" /\ read_range.end < read_range.start
  /\ DriverRead(dir, id, read_range, "seek") = ReadError("Read")
  /\ fault = "none"

\* --------------------------------------- FileService::get_file_data_by_id
RetRead(id, read_range, fault, r) ==
  [op |-> "read", kind |-> r.kind, id |-> id, err |-> r.err, size |-> Len(r.data),
   data |-> r.data, range |-> read_range, fault |-> fault]

GetFileData(p, id, read_range, fault) ==
  /\ pc[p] = "idle"
  /\ \/ res' = RetRead(id, read_range, fault, DriverRead(resident_dir, id, read_range, fault))
     \/ /\ ReadPanics(resident_dir, id, read_range, fault)
        /\ res' = RetRead(id, read_range, fault, [kind |-> "Panic", err |-> "", data |-> <<>>])
  /\ UNCHANGED <<staging_files, files, staging_dir, resident_dir, row_lock, used,
                 should_copy_files, pc, loc, inserted, ops>>
  /\ UNCHANGED others

\* ---------------------------------------------------------------- Next
Data == SeqsUpTo(MaxLen)

Next ==
  \E p \in Procs :
    \/ \E mime \in Mimes \cup {NoMime} : CreateStagingFile(p, mime)
    \/ \E id \in Ids, offset \in 0..MaxLen : FillBegin(p, id, offset)
    \/ FillSelect(p)
    \/ FillOpen(p)
    \/ \E data \in Data : FillCopy(p, data)
    \/ FillUpdate(p)
    \/ \E id \in Ids : PromoteBegin(p, id)
    \/ PromoteDelete(p)
    \/ PromoteInspect(p)
    \/ PromoteCommitStaging(p)
    \/ PromoteCommit(p)
    \/ \E id \in Ids : RemoveStagingBegin(p, id)
    \/ RemoveStagingDelete(p)
    \/ RemoveStagingData(p)
    \/ \E id \in Ids : RemoveFile(p, id)
    \/ RemoveFileData(p)

Spec == Init /\ [][Next]_vars

\* ------------------------------------------------ a client that retries
\* One client issues the fill `attempt` and re-issues it, each time after
\* the previous attempt has returned, on an upload whose object holds
\* attempt.before (or does not exist yet) and whose row records that size.
RetryInit ==
  /\ attempt \in {[id |-> "u1", offset |-> o, data |-> D, before |-> C] :
                    o \in 0..MaxLen, D \in Data, C \in Data}
  /\ attempt.offset <= Len(attempt.before)
  /\ attempt.offset + Len(attempt.data) <= MaxLen
  /\ \E mime \in Mimes \cup {NoMime} :
       staging_files = [id \in {attempt.id} |->
                          [name |-> Name, mime |-> mime, size |-> Len(attempt.before),
                           staged_at |-> 0]]
  /\ staging_dir \in {[id \in {attempt.id} |-> attempt.before]}
                       \cup (IF attempt.before = <<>> THEN {<< >>} ELSE {})
  /\ files = << >>
  /\ resident_dir = << >>
  /\ row_lock = << >>
  /\ used = {attempt.id}
  /\ should_copy_files \in BOOLEAN
  /\ pc = [p \in Procs |-> "idle"]
  /\ loc = [p \in Procs |-> NoLoc]
  /\ res = Pending
  /\ inserted = [id \in Ids |-> 0]
  /\ ops = 0
  /\ NotLaunched

RetryNext ==
  \/ FillBegin("r1", attempt.id, attempt.offset)
  \/ FillOpen("r1")
  \/ FillCopy("r1", attempt.data)
  \/ FillUpdate("r1")

RetrySpec == RetryInit /\ [][RetryNext]_vars

\* ------------------------------------------------ reads of a resident file
\* A file that was promoted with content B, and readers of it.
ReadRanges ==
  {Full} \cup {StartAt(s) : s \in 0..MaxLen + 1}
         \cup {Range(s, e) : s \in 0..MaxLen + 1, e \in 0..MaxLen + 1}
         \cup {Suffix(n) : n \in 0..MaxLen + 1}

ReadInit ==
  /\ \E B \in Data, mime \in Mimes \cup {OctetStream} :
       /\ resident_dir = [id \in {"u1"} |-> B]
       /\ files = [id \in {"u1"} |-> [name |-> Name, mime |-> mime, size |-> Len(B),
                                       hash |-> ComputeFileHash(B)]]
  /\ staging_files = << >>
  /\ staging_dir = << >>
  /\ row_lock = << >>
  /\ used = {"u1"}
  /\ should_copy_files \in BOOLEAN
  /\ pc = [p \in Procs |-> "idle"]
  /\ loc = [p \in Procs |-> NoLoc]
  /\ res = Pending
  /\ inserted = [id \in Ids |-> IF id = "u1" THEN 1 ELSE 0]
  /\ ops = 0
  /\ attempt = NoAttempt
  /\ NotLaunched

ReadNext ==
  \E p \in Procs, id \in Ids, read_range \in ReadRanges, fault \in ReadFaults :
    GetFileData(p, id, read_range, fault)

ReadSpec == ReadInit /\ [][ReadNext]_vars

\* ------------------------------------------------ the sweeper
\* Time is counted up to MaxTime; later than that it still passes (timers
\* run out) but is no longer counted.
MaxTime == 3
\* AppConfig.expired_staging_file_removal_period and
\* AppConfig.expired_staging_file_expiration, in units of time
Period == 1
Expiration == 1
\* the limit the sweeper passes to remove_expired_staging_files (100),
\* scaled to the three uploads of SweepIds
BatchLimit == 2

SweepIds == {"u1", "u2", "u3"}
\* the order of the ids as the database compares them
IdOrder == <<"u1", "u2", "u3">>
IdRank(id) == CHOOSE i \in 1..Len(IdOrder) : IdOrder[i] = id

RetCount(n) == Ret("sweep", "Count", "u1", "", n)
RetPanic(err) == Ret("sweep", "Panic", "u1", err, 0)

\* .filter(staged_at.lt(expiration_time))
Expired(table, expiration_time) ==
  {id \in DOMAIN table : table[id].staged_at < expiration_time}

\* .order((staged_at.asc(), id.asc()))
OrderedBefore(table, a, b) ==
  \/ table[a].staged_at < table[b].staged_at
  \/ table[a].staged_at = table[b].staged_at /\ IdRank(a) < IdRank(b)

RECURSIVE Ordered(_, _)
Ordered(table, S) ==
  IF S = {} THEN <<>>
  ELSE LET first == CHOOSE a \in S : \A b \in S \ {a} : OrderedBefore(table, a, b)
       IN <<first>> \o Ordered(table, S \ {first})

\* the SELECT of remove_expired_staging_files: .limit(limit)
SelectExpired(table, expiration_time, limit) ==
  LET ordered == Ordered(table, Expired(table, expiration_time))
  IN SubSeq(ordered, 1, Min(limit, Len(ordered)))

Range_(seq) == {seq[i] : i \in 1..Len(seq)}

WithoutAll(table, S) == [i \in (DOMAIN table) \ S |-> table[i]]

\* StagingFileRemover::on_liftoff: the task is spawned and sleeps for a period
OnLiftoff ==
  /\ sweeper.pc = "unborn"
  /\ sweeper' = [sweeper EXCEPT !.pc = "sleeping", !.sleep_left = Period]
  /\ UNCHANGED <<staging_files, files, staging_dir, resident_dir, row_lock, used,
                 should_copy_files, pc, loc, res, inserted, ops, attempt, now,
                 shutdown>>

\* time passes by one unit
Tick ==
  /\ now < MaxTime \/ (sweeper.pc = "sleeping" /\ sweeper.sleep_left > 0)
  /\ now' = Min(now + 1, MaxTime)
  /\ sweeper' = IF sweeper.pc = "sleeping"
                THEN [sweeper EXCEPT !.sleep_left = Max(@ - 1, 0)]
                ELSE sweeper
  /\ UNCHANGED <<staging_files, files, staging_dir, resident_dir, row_lock, used,
                 should_copy_files, pc, loc, res, inserted, ops, attempt,
                 shutdown>>

\* tokio::select! takes the sleep branch, which is ready: the sweep starts
\* and remove_expired_staging_files reads the clock.
SelectSleep ==
  /\ sweeper.pc = "sleeping"
  /\ sweeper.sleep_left = 0
  /\ sweeper' = [sweeper EXCEPT !.pc = "select",
                                !.expiration_time = now - Expiration]
  /\ shutdown' = [shutdown EXCEPT
                    !.late = IF shutdown.stop_signal THEN @ + 1 ELSE @]
  /\ UNCHANGED <<staging_files, files, staging_dir, resident_dir, row_lock, used,
                 should_copy_files, pc, loc, res, inserted, ops, attempt, now>>

\* tokio::select! takes the stop branch, which is ready: break
SelectStop ==
  /\ sweeper.pc = "sleeping"
  /\ shutdown.stop_signal
  /\ sweeper' = [sweeper EXCEPT !.pc = "stopped", !.sleep_left = 0]
  /\ UNCHANGED <<staging_files, files, staging_dir, resident_dir, row_lock, used,
                 should_copy_files, pc, loc, res, inserted, ops, attempt, now,
                 shutdown>>

\* The sweep has returned and the loop enters select! again, in the same poll
\* of the task: the new sleep is not ready (unless the period is 0), so a
\* stop signal that is there is taken.
LoopAgain_AlwaysSleeps ==
  [sweeper EXCEPT !.pc = "sleeping", !.sleep_left = Period, !.ids = <<>>]

LoopAgain ==
  IF shutdown.stop_signal /\ Period > 0
  THEN [sweeper EXCEPT !.pc = "stopped", !.sleep_left = 0, !.ids = <<>>]
  ELSE [sweeper EXCEPT !.pc = "sleeping", !.sleep_left = Period, !.ids = <<>>]

\* remove_expired_staging_files has returned Err(err): the sweeper's
\* remove_expired_staging_files logs a warning and returns to the loop
SweepFailed_Breaks == [sweeper EXCEPT !.pc = "stopped", !.sleep_left = 0, !.ids = <<>>]

SweepFailed == LoopAgain

\* remove_expired_staging_files: the SELECT of the expired ids
RemoveExpiredSelect(db_fails) ==
  /\ sweeper.pc = "select"
  /\ IF db_fails
     THEN /\ sweeper' = SweepFailed
          /\ res' = RetError("sweep", "u1", "Diesel")
     ELSE /\ sweeper' = [sweeper EXCEPT
                           !.pc = "delete",
                           !.ids = SelectExpired(staging_files,
                                                 sweeper.expiration_time, BatchLimit)]
          /\ res' = Pending
  /\ UNCHANGED <<staging_files, files, staging_dir, resident_dir, row_lock, used,
                 should_copy_files, pc, loc, inserted, ops, attempt, now,
                 shutdown>>

\* DELETE ... WHERE id = ANY(ids) RETURNING id: the ids of the rows it deleted,
\* which are those of `ids` that still have a row
Returning_Selected(table, ids) == Range_(ids)

Returning(table, ids) == Range_(ids) \cap DOMAIN table

\* remove_expired_staging_files: the DELETE ... RETURNING id, then one
\* JoinSet::spawn_local per deleted row.  The sweeper task was started with
\* tokio::spawn, so it runs outside of any LocalSet, where spawn_local
\* panics: the first deleted row ends the task, after the DELETE committed.
RemoveExpiredDelete(db_fails) ==
  /\ sweeper.pc = "delete"
  /\ \A id \in Range_(sweeper.ids) : ~DeleteWaits(id)
  /\ LET expired_staging_files == Returning(staging_files, sweeper.ids) IN
     IF db_fails
     THEN /\ sweeper' = SweepFailed
          /\ res' = RetError("sweep", "u1", "Diesel")
          /\ UNCHANGED staging_files
     ELSE /\ staging_files' = WithoutAll(staging_files, expired_staging_files)
          /\ IF expired_staging_files = {}
             THEN /\ sweeper' = LoopAgain
                  /\ res' = RetCount(0)
             ELSE /\ sweeper' = [sweeper EXCEPT !.pc = "panicked", !.ids = <<>>]
                  /\ res' = RetPanic("spawn_local")
  /\ UNCHANGED <<files, staging_dir, resident_dir, row_lock, used,
                 should_copy_files, pc, loc, inserted, ops, attempt, now,
                 shutdown>>

\* StagingFileRemover::on_shutdown: the stop signal is sent (to no one when
\* the task has ended, which is ignored) and the join handle is taken
OnShutdown ==
  /\ shutdown.pc = "idle"
  /\ sweeper.pc # "unborn"
  /\ shutdown' = [shutdown EXCEPT
                    !.pc = "joining",
                    !.stop_signal = sweeper.pc \notin {"stopped", "panicked"}]
  /\ UNCHANGED <<staging_files, files, staging_dir, resident_dir, row_lock, used,
                 should_copy_files, pc, loc, res, inserted, ops, attempt, now,
                 sweeper>>

\* StagingFileRemover::on_shutdown: task_join_handle.await.ok()
OnShutdownJoin ==
  /\ shutdown.pc = "joining"
  /\ sweeper.pc \in {"stopped", "panicked"}
  /\ shutdown' = [shutdown EXCEPT !.pc = "returned"]
  /\ UNCHANGED <<staging_files, files, staging_dir, resident_dir, row_lock, used,
                 should_copy_files, pc, loc, res, inserted, ops, attempt, now,
                 sweeper>>

\* The server is launched at some time over uploads staged before, none of
\* which is being filled, promoted or cancelled.
SweepInit ==
  /\ now \in 0..MaxTime
  /\ \E S \in SUBSET SweepIds :
       /\ staging_files \in [S -> {[name |-> Name, mime |-> NoMime, size |-> 1,
                                    staged_at |-> t] : t \in 0..now}]
       /\ staging_dir = [id \in S |-> <<1>>]
       /\ used = S
  /\ files = << >>
  /\ resident_dir = << >>
  /\ row_lock = << >>
  /\ should_copy_files \in BOOLEAN
  /\ pc = [p \in Procs |-> "idle"]
  /\ loc = [p \in Procs |-> NoLoc]
  /\ res = Pending
  /\ inserted = [id \in Ids |-> 0]
  /\ ops = 0
  /\ attempt = NoAttempt
  /\ sweeper = NoSweeper
  /\ shutdown = NoShutdown

SweeperStep ==
  \/ SelectSleep
  \/ SelectStop
  \/ \E db_fails \in BOOLEAN : RemoveExpiredSelect(db_fails)
  \/ \E db_fails \in BOOLEAN : RemoveExpiredDelete(db_fails)

SweepNext ==
  \/ OnLiftoff
  \/ Tick
  \/ SweeperStep
  \/ OnShutdown
  \/ OnShutdownJoin

\* The runtime polls a task that was woken, and time passes.
SweepSpec ==
  /\ SweepInit
  /\ [][SweepNext]_vars
  /\ WF_vars(Tick)
  /\ WF_vars(SweeperStep)
  /\ WF_vars(OnShutdownJoin)

\* The sweeper kept running: no shutdown, and no database operation fails.
RunningNext ==
  \/ OnLiftoff
  \/ Tick
  \/ SelectSleep
  \/ RemoveExpiredSelect(FALSE)
  \/ RemoveExpiredDelete(FALSE)

RunningSpec ==
  /\ SweepInit
  /\ [][RunningNext]_vars
  /\ WF_vars(OnLiftoff)
  /\ WF_vars(Tick)
  /\ WF_vars(SelectSleep \/ RemoveExpiredSelect(FALSE) \/ RemoveExpiredDelete(FALSE))

\* ------------------------------------------------ the HTTP layer
Digits == <<"0", "1", "2", "3", "4", "5", "6", "7", "8", "9">>
IsDigit(c) == \E i \in 1..Len(Digits) : Digits[i] = c
DigitValue(c) == (CHOOSE i \in 1..Len(Digits) : Digits[i] = c) - 1

\* str::trim, str::starts_with, str::strip_prefix, str::ends_with and
\* str::split_once on character sequences
RECURSIVE TrimStart(_)
TrimStart(s) == IF s # <<>> /\ Head(s) = " " THEN TrimStart(Tail(s)) ELSE s
RECURSIVE TrimEnd(_)
TrimEnd(s) ==
  IF s # <<>> /\ s[Len(s)] = " " THEN TrimEnd(SubSeq(s, 1, Len(s) - 1)) ELSE s
Trim(s) == TrimEnd(TrimStart(s))
StartsWith(s, prefix) ==
  Len(prefix) <= Len(s) /\ SubSeq(s, 1, Len(prefix)) = prefix
StripPrefix(s, prefix) ==
  IF StartsWith(s, prefix) THEN SubSeq(s, Len(prefix) + 1, Len(s)) ELSE s
EndsWith(s, c) == s # <<>> /\ s[Len(s)] = c
Found(s, c) == \E i \in 1..Len(s) : s[i] = c
SplitOnce(s, c) ==
  LET i == CHOOSE i \in 1..Len(s) : s[i] = c /\ \A j \in 1..(i - 1) : s[j] # c
  IN  [before |-> SubSeq(s, 1, i - 1), after |-> SubSeq(s, i + 1, Len(s))]

\* str::parse::<i64>: an optional sign and at least one digit, nothing else.
\* The digits are accumulated with checked arithmetic, upwards for a
\* positive and downwards for a negative number; a value outside i64 is an
\* error.
IsDigits(s) == s # <<>> /\ \A i \in 1..Len(s) : IsDigit(s[i])
ParseErr == [ok |-> FALSE, value |-> 0]
RECURSIVE Accumulate(_, _)
Accumulate(s, negative) ==
  IF s = <<>> THEN [ok |-> TRUE, value |-> 0]
  ELSE LET r == Accumulate(SubSeq(s, 1, Len(s) - 1), negative)
           d == DigitValue(s[Len(s)])
       IN  IF ~r.ok THEN ParseErr
           ELSE IF negative
             THEN IF r.value = 0 \/ (0 - r.value) - 1 <= (I64_MAX - d - 9) \div 10
                    THEN [ok |-> TRUE, value |-> 10 * r.value - d]
                    ELSE ParseErr
           ELSE IF r.value <= (I64_MAX - d) \div 10
             THEN [ok |-> TRUE, value |-> 10 * r.value + d]
           ELSE ParseErr
ParseI64(s) ==
  IF s # <<>> /\ Head(s) \in {"-", "+"}
    THEN IF IsDigits(Tail(s)) THEN Accumulate(Tail(s), Head(s) = "-") ELSE ParseErr
    ELSE IF IsDigits(s) THEN Accumulate(s, FALSE) ELSE ParseErr

\* ------------------------------------------- RangeHeader::from_request
BadRequest == [ok |-> FALSE, some |-> FALSE, start |-> 0, has_end |-> FALSE, end |-> 0]
RangeNone == [ok |-> TRUE, some |-> FALSE, start |-> 0, has_end |-> FALSE, end |-> 0]
RangeFrom(start) ==
  [ok |-> TRUE, some |-> TRUE, start |-> start, has_end |-> FALSE, end |-> 0]
RangeTo(start, end) ==
  [ok |-> TRUE, some |-> TRUE, start |-> start, has_end |-> TRUE, end |-> end]

BytesEq == <<"b", "y", "t", "e", "s", "=">>

RangeHeader_Unordered(header) ==
  IF ~header.present THEN RangeNone
  ELSE
  LET trimmed == Trim(header.value) IN
  IF ~StartsWith(trimmed, BytesEq) THEN BadRequest
  ELSE
  LET unit == Trim(StripPrefix(trimmed, <<"b", "y", "t", "e", "s">>))
      ranges == Trim(StripPrefix(unit, <<"=">>))
      \* ignore multiple ranges
      range == IF Found(ranges, ",") THEN SplitOnce(ranges, ",").before ELSE ranges
      suffix == StartsWith(range, <<"-">>)
      split == ~suffix /\ Found(range, "-")
      start_text == IF split THEN Trim(SplitOnce(range, "-").before) ELSE range
      end_text == IF split THEN Trim(SplitOnce(range, "-").after) ELSE <<>>
      start == ParseI64(start_text)
      has_end == split /\ end_text # <<>>
      end == ParseI64(end_text)
  IN  IF ~start.ok THEN BadRequest
      ELSE IF has_end /\ ~end.ok THEN BadRequest
      ELSE IF has_end
        THEN \* pattern: start-end
             IF start.value < 0 \/ end.value < 0
               THEN BadRequest ELSE RangeTo(start.value, end.value)
      ELSE IF EndsWith(range, "-")
        THEN \* pattern: start-
             IF start.value < 0 THEN BadRequest ELSE RangeFrom(start.value)
      ELSE \* pattern: start, which can be negative
           RangeFrom(start.value)

RangeHeader(header) ==
  IF ~header.present THEN RangeNone
  ELSE
  LET trimmed == Trim(header.value) IN
  IF ~StartsWith(trimmed, BytesEq) THEN BadRequest
  ELSE
  LET unit == Trim(StripPrefix(trimmed, <<"b", "y", "t", "e", "s">>))
      ranges == Trim(StripPrefix(unit, <<"=">>))
      \* ignore multiple ranges
      range == IF Found(ranges, ",") THEN SplitOnce(ranges, ",").before ELSE ranges
      suffix == StartsWith(range, <<"-">>)
      split == ~suffix /\ Found(range, "-")
      start_text == IF split THEN Trim(SplitOnce(range, "-").before) ELSE range
      end_text == IF split THEN Trim(SplitOnce(range, "-").after) ELSE <<>>
      start == ParseI64(start_text)
      has_end == split /\ end_text # <<>>
      end == ParseI64(end_text)
  IN  IF ~start.ok THEN BadRequest
      ELSE IF has_end /\ ~end.ok THEN BadRequest
      ELSE IF has_end
        THEN \* pattern: start-end
             IF start.value < 0 \/ end.value < 0 \/ end.value < start.value
               THEN BadRequest ELSE RangeTo(start.value, end.value)
      ELSE IF EndsWith(range, "-")
        THEN \* pattern: start-
             IF start.value < 0 THEN BadRequest ELSE RangeFrom(start.value)
      ELSE \* pattern: start, which can be negative
           RangeFrom(start.value)

\* ------------------------------------------------ routes::file::get_file_data
\* u32 as the model counts it: half the width of the model's i64
U32_MAX == 15

\* the match on range_header.range
ReadRangeOf(range) ==
  IF ~range.some THEN Full
  ELSE IF ~range.has_end
    THEN IF range.start < 0 THEN Suffix((0 - range.start) % (U32_MAX + 1))
         ELSE StartAt(range.start)
  ELSE Range(range.start, range.end)

\* the status of a FileData response
DataStatus_FullWhenWhole(read_range, data, file) ==
  IF read_range.kind = "Full" \/ Len(data) = file.size THEN 200 ELSE 206

DataStatus(read_range, data, file) ==
  IF read_range.kind = "Full" THEN 200 ELSE 206

\* FileData::respond_to: the Accept-Ranges header
AcceptRanges(status) == IF status = 206 THEN "bytes" ELSE "none"

\* What a request was answered: the status, and for a FileData response the
\* Accept-Ranges and Content-Type headers and the body.  An error response
\* has none of them.
\* `refused` tells what kept the handler from answering for the resource: the
\* session guard, the Range guard, the database or the read of the object.
Response(op, id, header, status, refused) ==
  [op |-> op, kind |-> "Response", id |-> id, err |-> "", size |-> 0,
   status |-> status, header |-> header, accept_ranges |-> "", mime |-> NoMime,
   data |-> <<>>, refused |-> refused]
FileDataResponse(id, header, status, mime, data) ==
  [op |-> "get_file_data", kind |-> "Response", id |-> id, err |-> "",
   size |-> Len(data), status |-> status, header |-> header,
   accept_ranges |-> AcceptRanges(status), mime |-> mime, data |-> data,
   refused |-> "none"]

\* AuthUserSession::from_request: the session is found, is not found, or
\* the lookup fails
Sessions == {"user", "none", "error"}
AuthStatus(session) ==
  CASE session = "user" -> 200 [] session = "none" -> 401 [] session = "error" -> 500

\* The guards and get_file_by_id.
GetFileDataBegin(p, session, header, id, db_fails) ==
  /\ Start(p)
  /\ IF AuthStatus(session) # 200
       THEN Finish(p, Response("get_file_data", id, header, AuthStatus(session), "session"))
     ELSE IF ~RangeHeader(header).ok
       THEN Finish(p, Response("get_file_data", id, header, 400, "range"))
     ELSE IF db_fails
       THEN Finish(p, Response("get_file_data", id, header, 500, "database"))
     ELSE IF id \notin DOMAIN files
       THEN Finish(p, Response("get_file_data", id, header, 404, "none"))
     ELSE /\ pc' = [pc EXCEPT ![p] = "get_file_data"]
          /\ loc' = [loc EXCEPT ![p] = [NoLoc EXCEPT !.id = id, !.file = files[id],
                                                      !.header = header]]
          /\ UNCHANGED res
  /\ UNCHANGED <<staging_files, files, staging_dir, resident_dir, row_lock, used,
                 should_copy_files, inserted>>
  /\ UNCHANGED others

\* get_file_data_by_id and the response.
GetFileDataRead(p, fault) ==
  /\ pc[p] = "get_file_data"
  /\ LET id == loc[p].id
         header == loc[p].header
         read_range == ReadRangeOf(RangeHeader(header))
         data == DriverRead(resident_dir, id, read_range, fault)
     IN  Finish(p,
           CASE data.kind = "None" -> Response("get_file_data", id, header, 404, "none")
             [] data.kind = "Error" /\ data.err = "Read" ->
                  Response("get_file_data", id, header, 500, "read")
             [] data.kind = "Error" /\ data.err # "Read" ->
                  Response("get_file_data", id, header, 416, "none")
             [] data.kind = "Data" ->
                  FileDataResponse(id, header,
                                   DataStatus(read_range, data.data, loc[p].file),
                                   loc[p].file.mime, data.data))
  /\ UNCHANGED <<staging_files, files, staging_dir, resident_dir, row_lock, used,
                 should_copy_files, inserted, ops>>
  /\ UNCHANGED others

\* ------------------------- StagingFileService::get_staging_file_by_id
GetStagingFile(p, id, db_fails) ==
  /\ Start(p)
  /\ res' = IF db_fails THEN RetError("get_staging_file", id, "Diesel")
            ELSE IF id \in DOMAIN staging_files
              THEN RetStaging("get_staging_file", id, staging_files[id])
            ELSE RetNone("get_staging_file", id)
  /\ UNCHANGED <<staging_files, files, staging_dir, resident_dir, row_lock, used,
                 should_copy_files, pc, loc, inserted>>
  /\ UNCHANGED others

\* ----------------------------------------- FileService::get_file_by_id
GetFile(p, id, db_fails) ==
  /\ Start(p)
  /\ res' = IF db_fails THEN RetError("get_file", id, "Diesel")
            ELSE IF id \in DOMAIN files THEN RetFile("get_file", id, files[id])
            ELSE RetNone("get_file", id)
  /\ UNCHANGED <<staging_files, files, staging_dir, resident_dir, row_lock, used,
                 should_copy_files, pc, loc, inserted>>
  /\ UNCHANGED others

\* ------------------------------------ the status a controller answers
\* routes::staging_file: remove_staging_file and get_staging_file
StagingFileStatus(r) ==
  CASE r.kind = "StagingFile" -> 200
    [] r.kind = "None" -> 404
    [] r.kind = "Error" -> 500

\* routes::staging_file::fill_staging_file
FillStagingFileStatus_NoneIsInternal(r) ==
  CASE r.kind = "StagingFile" -> 200
    [] r.kind = "None" -> 500
    [] r.kind = "WriteError" -> IF r.err = "Write" THEN 500 ELSE 422
    [] r.kind = "Error" -> 500

FillStagingFileStatus(r) ==
  CASE r.kind = "StagingFile" -> 200
    [] r.kind = "None" -> 404
    [] r.kind = "WriteError" -> IF r.err = "Write" THEN 500 ELSE 422
    [] r.kind = "Error" -> 500

\* routes::file::map_file_service_err
MapFileServiceErr(err) == IF err = "FileNotYetFilled" THEN 422 ELSE 500

\* routes::file::create_file
CreateFileStatus(r) ==
  CASE r.kind = "File" -> 201
    [] r.kind = "None" -> 404
    [] r.kind = "Error" -> MapFileServiceErr(r.err)

\* routes::file: remove_file and get_file
FileStatus(r) ==
  CASE r.kind = "File" -> 200
    [] r.kind = "None" -> 404
    [] r.kind = "Error" -> MapFileServiceErr(r.err)

StagingOps == {"fill", "promote", "remove_staging", "get_staging_file"}
FileOps == {"remove_file", "get_file", "get_file_data"}

StatusOf(r) ==
  CASE r.op = "fill" -> FillStagingFileStatus(r)
    [] r.op \in {"remove_staging", "get_staging_file"} -> StagingFileStatus(r)
    [] r.op = "promote" -> CreateFileStatus(r)
    [] r.op \in {"remove_file", "get_file"} -> FileStatus(r)
    [] r.op = "get_file_data" -> r.status

\* ------------------------------------------------ requests, one at a time
\* Range header values: numbers, the four patterns made of them, values the
\* guard rejects, lists of ranges and padded values.
Headers ==
  LET Numbers == {<<"0">>, <<"1">>, <<"2">>, <<"3">>, <<"1", "0">>}
      Patterns ==
        Numbers \cup {<<"-">> \o n : n \in Numbers} \cup {n \o <<"-">> : n \in Numbers}
          \cup {n \o <<"-">> \o m : n, m \in Numbers}
      Rejected ==
        {<<>>, <<"-">>, <<"x">>, <<"-", "-", "1">>, <<"1", "-", "x">>, <<"-", "1", "-">>,
         <<"1", "-", "-", "2">>,
         <<"9", "9", "9", "9", "9", "9", "9", "9", "9", "9">>}
      Lists ==
        {r \o <<",">> \o s :
           r \in {<<"0", "-">>, <<"1", "-", "2">>, <<"-", "1">>, <<"-", "1", " ">>, <<"x">>},
           s \in {<<"0", "-", "0">>, <<"x">>}}
      Padded ==
        {<<" ", "1", " ", "-", " ", "2", " ">>, <<" ", "0", "-">>, <<"-", "1", " ">>,
         <<"+", "1", "-">>, <<"-", "1", "7">>, <<"-", "0">>}
  IN  {NoHeader}
        \cup {Header(BytesEq \o r) : r \in Patterns \cup Rejected \cup Lists \cup Padded}
        \cup {Header(<<" ">> \o BytesEq \o <<"0", "-", " ">>),
              Header(<<"b", "y", "t", "e", "s", " ", "=", "0", "-">>),
              Header(<<"i", "t", "e", "m", "s", "=", "0", "-">>),
              Header(<<"0", "-">>), Header(<<>>)}

\* One request is served at a time.  The store holds nothing, or the upload
\* u1 (with or without its staging object), or the file u1.
HttpInit ==
  /\ \E B \in Data, mime \in Mimes \cup {OctetStream} :
       \/ /\ staging_files = << >> /\ staging_dir = << >>
          /\ files = << >> /\ resident_dir = << >>
          /\ B = <<>> /\ mime = OctetStream
       \/ /\ staging_files = [id \in {"u1"} |->
                                [name |-> Name, mime |-> mime, size |-> Len(B),
                                 staged_at |-> 0]]
          /\ staging_dir \in {[id \in {"u1"} |-> B]}
                               \cup (IF B = <<>> THEN {<< >>} ELSE {})
          /\ files = << >> /\ resident_dir = << >>
       \/ /\ staging_files = << >> /\ staging_dir = << >>
          /\ files = [id \in {"u1"} |->
                        [name |-> Name, mime |-> mime, size |-> Len(B),
                         hash |-> ComputeFileHash(B)]]
          /\ resident_dir = [id \in {"u1"} |-> B]
  /\ row_lock = << >>
  /\ used = {"u1"}
  /\ should_copy_files \in BOOLEAN
  /\ pc = [p \in Procs |-> "idle"]
  /\ loc = [p \in Procs |-> NoLoc]
  /\ res = Pending
  /\ inserted = [id \in Ids |-> 0]
  /\ ops = MaxOps - 1
  /\ attempt = NoAttempt
  /\ NotLaunched

HttpNext ==
  \E p \in Procs :
    \/ \E session \in Sessions, header \in Headers, id \in Ids, db_fails \in BOOLEAN :
         GetFileDataBegin(p, session, header, id, db_fails)
    \/ \E fault \in ReadFaults : GetFileDataRead(p, fault)
    \/ \E id \in Ids, db_fails \in BOOLEAN : GetStagingFile(p, id, db_fails)
    \/ \E id \in Ids, db_fails \in BOOLEAN : GetFile(p, id, db_fails)
    \/ \E id \in Ids, offset \in 0..MaxLen : FillBegin(p, id, offset)
    \/ FillOpen(p)
    \/ \E data \in Data : FillCopy(p, data)
    \/ FillUpdate(p)
    \/ \E id \in Ids : PromoteBegin(p, id)
    \/ PromoteInspect(p)
    \/ PromoteCommitStaging(p)
    \/ PromoteCommit(p)
    \/ \E id \in Ids : RemoveStagingBegin(p, id)
    \/ RemoveStagingData(p)
    \/ \E id \in Ids : RemoveFile(p, id)
    \/ RemoveFileData(p)

HttpSpec == HttpInit /\ [][HttpNext]_vars

\* ------------------------------------------------ write_staging by itself
\* LocalFileSystem::write_staging as one call: the directory it leaves and
\* what it returns
WriteStaging(dir, id, offset, data, open_fault, copy_fault, k) ==
  LET opened == WriteOpenDir(dir, id, open_fault)
      r == WriteOpenResult(dir, id, offset, open_fault)
  IN  IF ~r.ok THEN [dir |-> opened, result |-> r]
      ELSE [dir |-> With(opened, id,
                         WriteCopyContent(opened[id], offset, data, copy_fault, k)),
            result |-> WriteCopyResult(opened[id], offset, data, r.file_size,
                                       copy_fault, k)]

RetWrite(id, offset, data, r) ==
  [op |-> "write_staging", kind |-> IF r.ok THEN "Size" ELSE "WriteError", id |-> id,
   err |-> r.err, size |-> r.file_size, offset |-> offset, len |-> Len(data)]

WriteStagingCall(id, offset, data, open_fault, copy_fault, k) ==
  /\ ops < MaxOps
  /\ ops' = ops + 1
  /\ IF copy_fault \in {"copy", "copy+restat"} THEN k <= Len(data) ELSE k = 0
  /\ LET w == WriteStaging(staging_dir, id, offset, data, open_fault, copy_fault, k) IN
       /\ staging_dir' = w.dir
       /\ res' = RetWrite(id, offset, data, w.result)
  /\ UNCHANGED <<staging_files, files, resident_dir, row_lock, used, should_copy_files,
                 pc, loc, inserted>>
  /\ UNCHANGED others

\* Objects of the lengths at which the checks and the cast turn: around 0,
\* around half of i64::MAX, and around i64::MAX.  File lengths are u64, as
\* std::fs::Metadata::len reports them.  A request body is at most a little
\* more than half of i64::MAX long.
Half == I64_MAX \div 2
Lengths == {0, 1, Half, Half + 1, I64_MAX - 1, I64_MAX, I64_MAX + 1}
Offsets == {0, 1, Half, Half + 1, I64_MAX, I64_MAX + 1}
Bodies == {0, 1, Half, Half + 2}
Filled(n) == [i \in 1..n |-> 1]

SizeInit ==
  /\ staging_files = [id \in {"u1"} |->
                        [name |-> Name, mime |-> NoMime, size |-> 0, staged_at |-> 0]]
  /\ \E n \in Lengths : staging_dir \in {<< >>, [id \in {"u1"} |-> Filled(n)]}
  /\ files = << >>
  /\ resident_dir = << >>
  /\ row_lock = << >>
  /\ used = {"u1"}
  /\ should_copy_files \in BOOLEAN
  /\ pc = [p \in Procs |-> "idle"]
  /\ loc = [p \in Procs |-> NoLoc]
  /\ res = Pending
  /\ inserted = [id \in Ids |-> 0]
  /\ ops = MaxOps - 1
  /\ attempt = NoAttempt
  /\ NotLaunched

SizeNext ==
  \E offset \in Offsets, n \in Bodies, open_fault \in OpenFaults,
     copy_fault \in CopyFaults, k \in {0, 1, Half} :
    WriteStagingCall("u1", offset, Filled(n), open_fault, copy_fault, k)

SizeSpec == SizeInit /\ [][SizeNext]_vars

\* ------------------------------------------------ the server at work
\* Requests and the sweeper together, on one upload u1 that was created at
\* time 0 and filled with the bytes B (or not filled at all): create and
\* fill are the two requests served so far.  Later fills write Body at
\* offset 0, and readers ask for the whole file.
Staged == {<<>>, <<1>>}
Body == <<2>>

ServerInit ==
  /\ \E B \in Staged, mime \in Mimes \cup {NoMime} :
       /\ staging_files = [id \in {"u1"} |->
                             [name |-> Name, mime |-> mime, size |-> Len(B),
                              staged_at |-> 0]]
       /\ staging_dir \in {[id \in {"u1"} |-> B]}
                            \cup (IF B = <<>> THEN {<< >>} ELSE {})
  /\ files = << >>
  /\ resident_dir = << >>
  /\ row_lock = << >>
  /\ used = {"u1"}
  /\ should_copy_files \in BOOLEAN
  /\ pc = [p \in Procs |-> "idle"]
  /\ loc = [p \in Procs |-> NoLoc]
  /\ res = Pending
  /\ inserted = [id \in Ids |-> 0]
  /\ ops = 2
  /\ attempt = NoAttempt
  /\ NotLaunched

Request(p) ==
  \/ FillBegin(p, "u1", 0)
  \/ FillSelect(p)
  \/ FillOpen(p)
  \/ FillCopy(p, Body)
  \/ FillUpdate(p)
  \/ PromoteBegin(p, "u1")
  \/ PromoteDelete(p)
  \/ PromoteInspect(p)
  \/ PromoteCommitStaging(p)
  \/ PromoteCommit(p)
  \/ RemoveStagingBegin(p, "u1")
  \/ RemoveStagingDelete(p)
  \/ RemoveStagingData(p)
  \/ RemoveFile(p, "u1")
  \/ RemoveFileData(p)
  \/ GetFileDataBegin(p, "user", NoHeader, "u1", FALSE)
  \/ \E fault \in {"none", "metadata"} : GetFileDataRead(p, fault)

ServerNext ==
  \/ \E p \in Procs : Request(p)
  \/ OnLiftoff
  \/ Tick
  \/ SelectSleep
  \/ \E db_fails \in BOOLEAN : RemoveExpiredSelect(db_fails)
  \/ \E db_fails \in BOOLEAN : RemoveExpiredDelete(db_fails)

ServerSpec == ServerInit /\ [][ServerNext]_vars

\* ================================================================ claims
FillPcs == {"fill_open", "fill_copy", "fill_update"}
PromotePcs == {"promote_read", "promote_insert", "promote_commit"}
StagedLen(id) == Len(Content(staging_dir, id))
Returns(p, at) == pc[p] = at /\ pc'[p] = "idle"

\* C1: whenever no fill is in progress on a staging id, the size column of
\* its StagingFile row equals the number of bytes in its staging object.
C1_SizeEqualsStagedBytes ==
  \A id \in DOMAIN staging_files :
    (\A p \in Procs : ~(pc[p] \in FillPcs /\ loc[p].id = id))
      => staging_files[id].size = StagedLen(id)

\* C2 as stated: when create_file_from_staging_file_id(X) returns a File, no
\* staging row X is left, read_staging(X) finds nothing, and reading the
\* resident object X in full yields the bytes staged when promotion began.
C2_PromotedLeavesNoStaging ==
  [][\A p \in Procs : (Returns(p, "promote_commit") /\ res'.kind = "File") =>
       /\ loc[p].id \notin DOMAIN staging_files'
       /\ ~ReadStaging(staging_dir', loc[p].id)
       /\ Read(resident_dir', loc[p].id, Full) = ReadData(loc[p].snap)]_vars

\* C2 as amended: the same, except that read_staging(X) still finds the
\* staged bytes when commit_staging copied and could not remove its source.
C2_PromotedLeavesNoStagingUnlessRemoveFailed ==
  [][\A p \in Procs : (Returns(p, "promote_commit") /\ res'.kind = "File") =>
       /\ loc[p].id \notin DOMAIN staging_files'
       /\ ReadStaging(staging_dir', loc[p].id)
            => /\ should_copy_files /\ loc[p].fault = "remove"
               /\ staging_dir'[loc[p].id] = loc[p].snap
       /\ Read(resident_dir', loc[p].id, Full) = ReadData(loc[p].snap)]_vars

C2_Witness ==
  /\ res.op = "promote" /\ res.kind = "File"
  /\ res.id \notin DOMAIN staging_files
  /\ ~ReadStaging(staging_dir, res.id)
  /\ Len(Content(resident_dir, res.id)) > 0

PromotionEndsWithoutFile == res'.op = "promote" /\ res'.kind \in {"None", "Error"}

\* C3 as stated: under any number of promotions of an id at most one File row
\* is ever committed for it, and a promotion that returns None or an error
\* changes nothing.
C3_PromotedAtMostOnce ==
  [][/\ \A id \in Ids : inserted'[id] <= 1
     /\ PromotionEndsWithoutFile
          => UNCHANGED <<staging_files, files, staging_dir, resident_dir>>]_vars

\* C3 as amended: at most one File row per id; a promotion that returns None
\* changes nothing, and one that returns an error changes no row and leaves
\* the objects as commit_staging left them: untouched, or with the partial
\* resident object of a copy that failed partway, or (when the COMMIT itself
\* failed) with the staged bytes already in the resident directory.
C3_PromotedAtMostOnceRowsUnchanged ==
  [][/\ \A id \in Ids : inserted'[id] <= 1
     /\ PromotionEndsWithoutFile
          => /\ UNCHANGED <<staging_files, files>>
             /\ res'.kind = "None" => UNCHANGED <<staging_dir, resident_dir>>
             /\ \A p \in Procs : (pc[p] \in PromotePcs /\ pc'[p] = "idle") =>
                  /\ staging_files'[loc[p].id] = loc[p].row
                  /\ loc[p].id \notin DOMAIN files'
                  /\ UNCHANGED staging_dir
                  /\ pc[p] = "promote_commit"
                       => /\ UNCHANGED resident_dir
                          /\ resident_dir[loc[p].id] = loc[p].snap
                  /\ (pc[p] # "promote_commit" /\ resident_dir' # resident_dir)
                       => /\ should_copy_files /\ res'.err = "IO"
                          /\ \E k \in 0..MaxLen :
                               /\ k < StagedLen(loc[p].id)
                               /\ resident_dir' = With(resident_dir, loc[p].id,
                                                       SubSeq(staging_dir[loc[p].id], 1, k))]_vars

C3_Witness ==
  /\ res.op = "promote" /\ res.kind = "None"
  /\ inserted[res.id] = 1

\* C4: fills of one staging id are serialized by the row lock: while a fill
\* is between its SELECT FOR UPDATE and its COMMIT no other fill of that id
\* is, nobody else has changed the object since the fill took the lock, and
\* what the fill leaves is its write applied to the object as it found it.
C4_FillsSerialized ==
  \A p \in Procs : pc[p] \in FillPcs =>
    LET id == loc[p].id IN
    /\ id \in DOMAIN row_lock /\ row_lock[id] = p
    /\ \A q \in Procs \ {p} : ~(pc[q] \in FillPcs /\ loc[q].id = id)
    /\ pc[p] \in {"fill_open", "fill_copy"} => Content(staging_dir, id) = loc[p].snap
    /\ pc[p] = "fill_update" =>
         /\ Content(staging_dir, id) = SeekAndCopy(loc[p].snap, loc[p].offset, loc[p].data)
         /\ loc[p].fault = "none" => loc[p].row.size = StagedLen(id)

C4_Witness ==
  \E p, q \in Procs :
    /\ pc[p] = "fill_update" /\ pc[q] = "fill_select" /\ loc[p].id = loc[q].id
    /\ Len(loc[p].data) > 0

\* C5: a fill and a promotion of one staging id never interleave: while a
\* promotion holds the consumed row no fill of that id is past its SELECT FOR
\* UPDATE, the staging object stays what it was when the row was consumed
\* (so the size and hash promotion read are those of the object), and the
\* bytes promoted are exactly those bytes.
C5_FillAndPromotionSerialized ==
  \A q \in Procs : pc[q] \in PromotePcs =>
    LET id == loc[q].id IN
    /\ id \in DOMAIN row_lock /\ row_lock[id] = q
    /\ \A p \in Procs : ~(pc[p] \in FillPcs /\ loc[p].id = id)
    /\ pc[q] \in {"promote_read", "promote_insert"} =>
         /\ Content(staging_dir, id) = loc[q].snap
         /\ (id \in DOMAIN staging_dir) = loc[q].had
    /\ pc[q] = "promote_insert" =>
         /\ loc[q].file.size = StagedLen(id)
         /\ loc[q].file.hash = ComputeFileHash(Content(staging_dir, id))
    /\ pc[q] = "promote_commit" => Content(resident_dir, id) = loc[q].snap

C5_Witness ==
  \E p, q \in Procs :
    /\ pc[q] = "promote_insert" /\ pc[p] = "fill_select" /\ loc[p].id = loc[q].id
    /\ Len(loc[q].snap) > 0

\* C6: promoting a staging id whose object holds no byte (none was ever
\* written: the object is absent or empty) ends with FileNotYetFilled, or with
\* the I/O error of read_staging itself, and commits no File row.
C6_UnfilledIsNotPromoted ==
  [][\A p \in Procs :
       (pc[p] = "promote_read" /\ pc'[p] # "promote_read" /\ StagedLen(loc[p].id) = 0)
         => /\ pc'[p] = "idle"
            /\ res'.kind = "Error" /\ res'.err \in {"FileNotYetFilled", "IO"}
            /\ files' = files]_vars

\* C7: when promotion fails with FileNotYetFilled the deletion of the staging
\* row is rolled back: the row is present with the fields it had, and no File
\* row with that id exists.
C7_NotYetFilledRollsBack ==
  [][\A p \in Procs :
       (Returns(p, "promote_read") /\ res'.err = "FileNotYetFilled")
         => /\ loc[p].id \in DOMAIN staging_files'
            /\ staging_files'[loc[p].id] = loc[p].row
            /\ loc[p].id \notin DOMAIN files']_vars

C7_Witness ==
  /\ res.op = "promote" /\ res.err = "FileNotYetFilled"
  /\ res.id \in DOMAIN staging_files
  /\ res.id \notin DOMAIN files

\* C8: a fill rejected with OffsetExceedsFileSize leaves the staging
\* directory as it was (same objects, same bytes) and the row unchanged.
C8_RejectedFillTouchesNothing ==
  [][\A p \in Procs :
       (Returns(p, "fill_open") /\ res'.err = "OffsetExceedsFileSize")
         => /\ staging_dir' = staging_dir
            /\ staging_files' = staging_files]_vars

\* C9: a fill at the offset equal to the object's length is never rejected
\* (only a failing file operation or database statement can end it with an
\* error), and when these succeed the object becomes the old bytes followed by the data
\* and the committed size becomes the old length plus the data's length.
C9_AppendAccumulates ==
  [][\A p \in Procs : loc[p].offset = Len(loc[p].snap) =>
       /\ (Returns(p, "fill_open") \/ Returns(p, "fill_copy")) => res'.err = "Write"
       /\ Returns(p, "fill_update") => res'.kind = "StagingFile" \/ res'.err = "Diesel"
       /\ (Returns(p, "fill_update") /\ res'.kind = "StagingFile" /\ loc[p].fault = "none")
            => /\ staging_dir'[loc[p].id] = loc[p].snap \o loc[p].data
               /\ staging_files'[loc[p].id].size = Len(loc[p].snap) + Len(loc[p].data)
               /\ res'.size = Len(loc[p].snap) + Len(loc[p].data)]_vars

C9_Witness ==
  \E p \in Procs :
    /\ pc[p] = "fill_update" /\ loc[p].fault = "none"
    /\ loc[p].offset = Len(loc[p].snap)
    /\ Len(loc[p].snap) > 0 /\ Len(loc[p].data) > 0
    /\ staging_dir[loc[p].id] = loc[p].snap \o loc[p].data

\* C10 as stated: a fill of data D at an offset o <= |C| is never rejected,
\* and when its file operations and database statements succeed the committed size is o + |D| and the
\* object is the first o bytes of C followed by D.
C10_SizeIsOffsetPlusData ==
  [][\A p \in Procs : loc[p].offset <= Len(loc[p].snap) =>
       /\ (Returns(p, "fill_open") \/ Returns(p, "fill_copy")) => res'.err = "Write"
       /\ (Returns(p, "fill_update") /\ res'.kind = "StagingFile" /\ loc[p].fault = "none")
            => /\ staging_files'[loc[p].id].size = loc[p].offset + Len(loc[p].data)
               /\ staging_dir'[loc[p].id]
                    = SubSeq(loc[p].snap, 1, loc[p].offset) \o loc[p].data]_vars

\* C10 as amended: the committed size is max(|C|, o + |D|), and the object is
\* the first o bytes of C, then D, then the bytes of C from o + |D| on.
C10_SizeIsMaxOfOldAndWritten ==
  [][\A p \in Procs : loc[p].offset <= Len(loc[p].snap) =>
       /\ (Returns(p, "fill_open") \/ Returns(p, "fill_copy")) => res'.err = "Write"
       /\ (Returns(p, "fill_update") /\ res'.kind = "StagingFile" /\ loc[p].fault = "none")
            => /\ staging_files'[loc[p].id].size
                    = Max(Len(loc[p].snap), loc[p].offset + Len(loc[p].data))
               /\ staging_dir'[loc[p].id]
                    = SubSeq(loc[p].snap, 1, loc[p].offset) \o loc[p].data
                        \o SubSeq(loc[p].snap, loc[p].offset + Len(loc[p].data) + 1,
                                  Len(loc[p].snap))]_vars

C10_Witness ==
  \E p \in Procs :
    /\ pc[p] = "fill_update" /\ loc[p].fault = "none"
    /\ Len(loc[p].data) > 0
    /\ loc[p].offset + Len(loc[p].data) < Len(loc[p].snap)
\* what one successful execution of the fill `attempt` leaves of the object
AttemptResult ==
  SubSeq(attempt.before, 1, attempt.offset) \o attempt.data
    \o SubSeq(attempt.before, attempt.offset + Len(attempt.data) + 1, Len(attempt.before))

\* C11: re-issuing a fill with the same id, offset and data, after attempts
\* that succeeded or failed partway, is never rejected, and when its file
\* operations and database statements succeed it leaves the content and the
\* recorded size that a single successful execution of the fill leaves.
C11_RetryIsIdempotent ==
  [][\A p \in Procs :
       /\ (Returns(p, "fill_open") \/ Returns(p, "fill_copy")) => res'.err = "Write"
       /\ (Returns(p, "fill_update") /\ res'.kind = "StagingFile" /\ loc[p].fault = "none")
            => /\ staging_dir'[attempt.id] = AttemptResult
               /\ staging_files'[attempt.id].size = Len(AttemptResult)
               /\ res'.size = Len(AttemptResult)]_vars

\* a re-issued fill has written, after an earlier attempt that stopped partway
C11_Witness ==
  /\ pc["r1"] = "fill_update" /\ loc["r1"].fault = "none" /\ ops >= 2
  /\ loc["r1"].snap # attempt.before /\ loc["r1"].snap # AttemptResult
  /\ staging_dir[attempt.id] = AttemptResult

\* C12: a fill enters write_staging only for an id that has a row; a fill for
\* an id without a row returns None, and that call creates or modifies no
\* staging object and no row.
C12_FillWithoutRowTouchesNothing ==
  [][/\ \A p \in Procs :
          /\ (pc[p] \notin FillPcs /\ pc'[p] \in FillPcs)
               => loc'[p].id \in DOMAIN staging_files
          /\ (pc[p] = "fill_select" /\ pc'[p] = "idle")
               => loc[p].id \notin DOMAIN staging_files /\ res' = RetNone("fill", loc[p].id)
     /\ (res'.op = "fill" /\ res'.kind = "None")
          => /\ res'.id \notin DOMAIN staging_files
             /\ UNCHANGED <<staging_files, files, staging_dir, resident_dir>>]_vars

\* a fill of an id that was created and is gone (promoted or cancelled) returned None
C12_Witness ==
  /\ res.op = "fill" /\ res.kind = "None"
  /\ res.id \in used /\ res.id \notin DOMAIN staging_files
\* the object a read names
ReadOf == Content(resident_dir, res.id)

\* C13: on a resident object B of length n, Full yields B, Start(s) with
\* s < n yields B[s..n) and Range(s, e) with s <= e < n yields the
\* e - s + 1 bytes B[s..e]; only a failing file operation makes such a read fail.
C13_ReadYieldsTheWindow ==
  (res.op = "read" /\ res.id \in DOMAIN resident_dir) =>
    LET B == ReadOf
        n == Len(B)
        s == res.range.start
        e == res.range.end
        inside == CASE res.range.kind = "Full" -> TRUE
                    [] res.range.kind = "Start" -> s < n
                    [] res.range.kind = "Range" -> s <= e /\ e < n
                    [] OTHER -> FALSE
        window == CASE res.range.kind = "Full" -> B
                    [] res.range.kind = "Start" -> SubSeq(B, s + 1, n)
                    [] res.range.kind = "Range" -> SubSeq(B, s + 1, e + 1)
                    [] OTHER -> <<>>
    IN inside =>
         /\ res.kind = "Data" \/ (res.kind = "Error" /\ res.err = "Read")
         /\ res.fault = "none" => res.kind = "Data"
         /\ res.kind = "Data" => res.data = window

C13_Witness ==
  /\ res.op = "read" /\ res.kind = "Data" /\ res.range.kind = "Range"
  /\ 0 < res.range.start /\ res.range.start <= res.range.end
  /\ res.data = SubSeq(ReadOf, res.range.start + 1, res.range.end + 1)
  /\ Len(res.data) = res.range.end - res.range.start + 1

\* C14: on a resident object of length n, Suffix(k) never fails on range
\* grounds and yields exactly the last min(k, n) bytes, the whole object when
\* k exceeds n.
C14_SuffixIsClamped ==
  (res.op = "read" /\ res.id \in DOMAIN resident_dir /\ res.range.kind = "Suffix") =>
    LET B == ReadOf
        n == Len(B)
        k == res.range.start
    IN /\ res.kind = "Data" \/ (res.kind = "Error" /\ res.err = "Read")
       /\ res.fault = "none" => res.kind = "Data"
       /\ res.kind = "Data" =>
            /\ res.data = SubSeq(B, n - Min(k, n) + 1, n)
            /\ k >= n => res.data = B

C14_Witness ==
  /\ res.op = "read" /\ res.range.kind = "Suffix" /\ res.kind = "Data"
  /\ Len(ReadOf) > 0 /\ res.range.start > Len(ReadOf) /\ res.data = ReadOf

\* C15: on a resident object of length n whose open and stat succeed,
\* Start(s) fails with RangeStartExceedsFileSize exactly when n <= s and
\* Range(s, e) fails with RangeEndExceedsFileSize exactly when n <= e; a read
\* that fails yields no data, and no read changes a row or an object.
C15_RangeErrorsExactly ==
  [][/\ res'.op = "read" => UNCHANGED <<staging_files, files, staging_dir, resident_dir>>
     /\ (res'.op = "read" /\ res'.kind # "Data") => res'.data = <<>>
     /\ (res'.op = "read" /\ res'.id \in DOMAIN resident_dir
           /\ res'.fault \notin {"open", "metadata"}) =>
          LET n == Len(resident_dir[res'.id]) IN
          /\ (res'.kind = "Error" /\ res'.err = "RangeStartExceedsFileSize")
               <=> (res'.range.kind = "Start" /\ n <= res'.range.start)
          /\ (res'.kind = "Error" /\ res'.err = "RangeEndExceedsFileSize")
               <=> (res'.range.kind = "Range" /\ n <= res'.range.end)]_vars

C15_Witness ==
  /\ res.op = "read" /\ res.kind = "Error" /\ res.data = <<>>
  /\ res.err = "RangeEndExceedsFileSize"
  /\ res.range.end = Len(ReadOf) /\ res.range.start < Len(ReadOf)
\* the rows of `table` staged strictly before `time`
StagedBefore(table, time) == {id \in DOMAIN table : table[id].staged_at < time}
Older(table, a, b) ==
  \/ table[a].staged_at < table[b].staged_at
  \/ table[a].staged_at = table[b].staged_at /\ IdRank(a) < IdRank(b)
\* a sweep's call of remove_expired_staging_files ends with this step
SweepEnds == sweeper.pc = "delete" /\ sweeper'.pc # "delete" /\ res'.kind # "Error"

\* C16: one call of remove_expired_staging_files, with nothing else changing
\* the rows and no database failure, deletes exactly the min(limit, number
\* of expired rows) oldest rows by (staged_at, id) among those staged
\* strictly before now - max_age, and returns how many it deleted.
C16_SweepDeletesOldestAndCounts ==
  [][SweepEnds =>
       LET E == StagedBefore(staging_files, sweeper.expiration_time)
           n == Min(BatchLimit, Cardinality(E))
       IN \E S \in SUBSET E :
            /\ Cardinality(S) = n
            /\ \A a \in S, b \in E \ S : Older(staging_files, a, b)
            /\ staging_files' = [i \in (DOMAIN staging_files) \ S |-> staging_files[i]]
            /\ res' = RetCount(n)]_vars


\* C17: an upload that is never promoted or cancelled is reclaimed: once its
\* row is older than the expiration, the sweeper (which keeps running, with
\* fair ticks and no failing operation) eventually has deleted the row and
\* the staging object is gone.
C17_ExpiredIsReclaimed ==
  \A id \in SweepIds :
    (id \in DOMAIN staging_files /\ staging_files[id].staged_at < now - Expiration)
      ~> (id \notin DOMAIN staging_files /\ id \notin DOMAIN staging_dir)

Terminated == sweeper.pc \in {"stopped", "panicked"}

\* C18: after on_shutdown has sent the stop signal the sweeper task
\* eventually terminates, no sweep starts once the signal is sent, and
\* on_shutdown returns only after the task has terminated.
C18_StopsWithoutNewSweep ==
  /\ shutdown.stop_signal ~> Terminated
  /\ [](shutdown.late = 0)
  /\ [](shutdown.pc = "returned" => Terminated)

\* C18, amended: as above, except that one sweep may still start after the
\* signal, when select! finds the period elapsed as well.
C18_StopsAfterAtMostOneSweep ==
  /\ shutdown.stop_signal ~> Terminated
  /\ [](shutdown.late <= 1)
  /\ [](shutdown.pc = "returned" => Terminated)

C18_Witness ==
  /\ shutdown.pc = "returned"
  /\ shutdown.stop_signal
  /\ shutdown.late = 1
  /\ sweeper.pc = "stopped"

\* commit_staging of p's promotion has just returned Ok with no file
\* operation failing
CommitStagingDone(p) ==
  /\ pc[p] = "promote_insert"
  /\ pc'[p] = "promote_commit"
  /\ loc'[p].fault = "none"

\* C19: commit_staging by rename and by copy-then-delete are equivalent when
\* no file operation fails: in either mode it returns Ok, the resident
\* object holds the staged bytes, the staging object is gone and every
\* other object is as before.
C19_RenameAndCopyAgree ==
  [][\A p \in Procs :
       CommitStagingDone(p) =>
         /\ resident_dir' = With(resident_dir, loc[p].id, staging_dir[loc[p].id])
         /\ staging_dir' = Without(staging_dir, loc[p].id)]_vars

C19_Witness ==
  \E p \in Procs :
    /\ pc[p] = "promote_commit"
    /\ loc[p].fault = "none"
    /\ should_copy_files
    /\ loc[p].id \notin DOMAIN staging_dir
    /\ Content(resident_dir, loc[p].id) = loc[p].snap
    /\ loc[p].snap # <<>>

\* p's promotion returns a File with this step
Promoted(p) ==
  /\ pc[p] = "promote_commit"
  /\ res'.op = "promote"
  /\ res'.kind = "File"

\* C20: the File row of a successful promotion has the id and the name of
\* the staging row it consumed, as size the number of bytes of the staging
\* object at promotion time, and as MIME type the declared one when one was
\* declared.
C20_FileRowMirrorsStagingRow ==
  [][\A p \in Procs :
       Promoted(p) =>
         LET id == loc[p].id
             consumed == staging_files[id]
         IN /\ res'.id = id
            /\ id \in DOMAIN files' /\ id \notin DOMAIN files
            /\ id \notin DOMAIN staging_files'
            /\ files'[id].name = consumed.name
            /\ files'[id].size = Len(loc[p].snap)
            /\ files'[id].size = Len(resident_dir'[id])
            /\ consumed.mime # NoMime => files'[id].mime = consumed.mime]_vars

C20_Witness ==
  /\ res.op = "promote"
  /\ res.kind = "File"
  /\ res.id \in DOMAIN files
  /\ files[res.id].mime \in Mimes
  /\ files[res.id].mime # Sniffed
  /\ files[res.id].size > 0

\* C21: a resident file is immutable: while its File row exists, from its
\* creation on, the row and the bytes of the resident object stay what they
\* were under every later create, fill, promotion, cancellation, removal and
\* sweep, and the size column is the length of the resident object.
C21_ResidentIsImmutable ==
  /\ [](\A id \in DOMAIN files :
          /\ id \in DOMAIN resident_dir
          /\ files[id].size = Len(resident_dir[id]))
  /\ [][\A id \in (DOMAIN files) \cap (DOMAIN files') :
          /\ files'[id] = files[id]
          /\ resident_dir'[id] = resident_dir[id]]_vars

\* a sweep ran after the file came to be, and a fill was issued as well
C21_Witness ==
  /\ "u1" \in DOMAIN files
  /\ Len(resident_dir["u1"]) > 0
  /\ res.op = "sweep" /\ res.kind = "Count"
  /\ ops = MaxOps

\* remove_staging_file_by_id of request p has run its DELETE and found the row
RowRemoved(p, from, to) == pc[p] \in {"idle", from} /\ pc'[p] = to

\* what C22 says of everything but the bytes of a cancelled upload
RemovalOfRow ==
  \A p \in Procs :
    /\ RowRemoved(p, "remove_delete", "remove_staging") =>
         /\ loc'[p].id \in DOMAIN staging_files
         /\ loc'[p].id \notin DOMAIN staging_files'
         /\ loc'[p].row = staging_files[loc'[p].id]
    /\ Returns(p, "remove_staging") =>
         /\ res' = RetStaging("remove_staging", loc[p].id, loc[p].row)
         /\ \A id \in (DOMAIN staging_dir \cup DOMAIN staging_dir') \ {loc[p].id} :
              /\ id \in DOMAIN staging_dir /\ id \in DOMAIN staging_dir'
              /\ staging_dir'[id] = staging_dir[id]
    /\ RowRemoved(p, "promote_delete", "promote_read") =>
         /\ loc'[p].id \in DOMAIN staging_files
         /\ loc'[p].row = staging_files[loc'[p].id]
         /\ row_lock'[loc'[p].id] = p
         /\ staging_dir' = staging_dir
    /\ (pc[p] \in {"remove_delete", "promote_delete"} /\ pc'[p] # pc[p]
          /\ loc[p].id \notin DOMAIN staging_files) =>
         res'.kind = "None" /\ res'.id = loc[p].id
    /\ (res'.op \in {"remove_staging", "promote"} /\ res'.kind = "None") =>
         /\ res'.id \notin DOMAIN staging_files
         /\ UNCHANGED <<staging_files, staging_dir>>

\* C22 as stated: remove_staging_file_by_id on an existing row returns the
\* row and deletes it, with delete_data (cancellation) the staging object is
\* gone as well, without it (promotion) the bytes stay; on an id without a
\* row it returns None and removes nothing.
C22_RemovalDeletesRowAndBytes ==
  [][/\ RemovalOfRow
     /\ \A p \in Procs :
          Returns(p, "remove_staging") => loc[p].id \notin DOMAIN staging_dir']_vars

\* C22 as amended: with delete_data the staging object is gone, or, when
\* its removal failed, is what it was.
C22_RemovalDeletesRowAndTriesBytes ==
  [][/\ RemovalOfRow
     /\ \A p \in Procs :
          Returns(p, "remove_staging") =>
            \/ staging_dir' = Without(staging_dir, loc[p].id)
            \/ staging_dir' = staging_dir]_vars

C22_Witness ==
  /\ res.op = "remove_staging" /\ res.kind = "StagingFile"
  /\ res.size > 0
  /\ res.id \notin DOMAIN staging_dir
  /\ res.id \notin DOMAIN staging_files

\* C23: a successful file-data response has status 200 exactly when the
\* request carried no Range header and status 206 whenever it carried an
\* accepted one, also when the range covers the whole file (start 0, a suffix
\* longer than the file); Accept-Ranges is `bytes` exactly when the status
\* is 206.
C23_PartialStatusIffRangeHeader ==
  res.op = "get_file_data" =>
    /\ res.status \in {200, 206} =>
         /\ res.status = 200 <=> ~res.header.present
         /\ res.header.present => res.status = 206
         /\ RangeHeader(res.header).ok
    /\ res.accept_ranges = "bytes" <=> res.status = 206
    /\ res.status = 200 => res.accept_ranges = "none"

\* the suffix of 10 bytes of a file of MaxLen bytes: the whole file, as 206
C23_Witness ==
  /\ res.op = "get_file_data"
  /\ res.status = 206
  /\ res.header = Header(BytesEq \o <<"-", "1", "0">>)
  /\ res.id \in DOMAIN resident_dir
  /\ res.data = resident_dir[res.id]
  /\ Len(res.data) = MaxLen
  /\ res.accept_ranges = "bytes"

\* C24: a missing resource is not reported as a server fault.  A get, remove,
\* fill or promotion of a staging id without a row, and a get, remove or
\* data-read of a file id without a row, answer 404; the promotion of a
\* staging id without a staged object answers 422.  The only other answers
\* come from a refused request (session, Range header) or from a database or
\* file operation that failed in this very request.
Refused(r) ==
  \/ r.kind = "Error" /\ r.err \in {"Diesel", "IO"}
  \/ r.kind = "Response" /\ r.refused # "none"
Looked(p) ==
  /\ pc[p] \in {"idle", "fill_select", "promote_delete", "remove_delete"}
  /\ pc'[p] = "idle"
  /\ pc[p] = "idle" => pc' = pc
  /\ res' # res
C24_MissingIsNotAServerFault ==
  [][\A p \in Procs :
       /\ (Looked(p) /\ res'.op \in StagingOps /\ res'.id \notin DOMAIN staging_files)
            => StatusOf(res') = 404 \/ Refused(res')
       /\ (Looked(p) /\ res'.op \in FileOps /\ res'.id \notin DOMAIN files)
            => StatusOf(res') = 404 \/ Refused(res')
       /\ (Returns(p, "promote_read") /\ loc[p].id \notin DOMAIN staging_dir)
            => StatusOf(res') = 422 \/ Refused(res')]_vars

\* the promotion of an upload that was never filled was answered 422
C24_Witness ==
  /\ res.op = "promote"
  /\ res.id \in DOMAIN staging_files
  /\ res.id \notin DOMAIN staging_dir
  /\ StatusOf(res) = 422
  /\ ~Refused(res)

\* C25: a File row that is visible in the committed table has its resident
\* object, whole: commit_staging has finished before the transaction of
\* promotion commits.  A reader of the file-data endpoint whose file has not
\* been removed gets neither 404 nor fewer bytes than the row says.
C25_VisibleFileIsWhole ==
  /\ [](\A id \in DOMAIN files :
          /\ id \in DOMAIN resident_dir
          /\ Len(resident_dir[id]) = files[id].size)
  /\ [][\A p \in Procs :
          (Returns(p, "get_file_data") /\ loc[p].id \in DOMAIN files) =>
            \/ res'.refused = "read"
            \/ /\ res'.status = 200
               /\ res'.data = resident_dir[loc[p].id]
               /\ Len(res'.data) = loc[p].file.size
               /\ loc[p].file = files[loc[p].id]]_vars

\* a reader got the whole file of a promotion that copied
C25_Witness ==
  /\ res.op = "get_file_data"
  /\ res.status = 200
  /\ res.id \in DOMAIN files
  /\ res.size = files[res.id].size
  /\ res.size > 0
  /\ should_copy_files

\* C26: a promotion that fails after it consumed the staging row and before
\* its transaction has committed (read_staging, size, MIME or hash, the INSERT
\* of the File row, commit_staging, the COMMIT itself) rolls all metadata
\* back: the StagingFile row is there again as it was, unlocked, and there is
\* no File row of that id.
C26_FailedPromotionRollsBack ==
  [][\A p \in Procs :
       (pc[p] \in PromotePcs /\ pc'[p] = "idle" /\ res'.kind = "Error") =>
         /\ res'.op = "promote" /\ res'.id = loc[p].id
         /\ loc[p].id \in DOMAIN staging_files'
         /\ staging_files'[loc[p].id] = loc[p].row
         /\ staging_files' = staging_files
         /\ loc[p].id \notin DOMAIN row_lock'
         /\ loc[p].id \notin DOMAIN files'
         /\ files' = files]_vars

\* commit_staging failed in the middle of its copy, and the row is back
C26_Witness ==
  /\ res.op = "promote" /\ res.kind = "Error" /\ res.err = "IO"
  /\ res.id \in DOMAIN staging_files
  /\ res.id \notin DOMAIN row_lock
  /\ res.id \in DOMAIN resident_dir
  /\ res.id \notin DOMAIN files
  /\ staging_files[res.id].size > Len(resident_dir[res.id])

\* C27: a failed promotion leaves the upload recoverable: when
\* create_file_from_staging_file_id returns an error for an upload that had
\* staged bytes, the StagingFile row and the staging object, with the same
\* bytes, are still there.
C27_FailedPromotionKeepsUpload ==
  [][\A p \in Procs :
       (/\ pc[p] \in PromotePcs /\ pc'[p] = "idle" /\ res'.kind = "Error"
        /\ loc[p].had /\ loc[p].snap # <<>>) =>
         /\ loc[p].id \in DOMAIN staging_files'
         /\ loc[p].id \in DOMAIN staging_dir'
         /\ staging_dir'[loc[p].id] = loc[p].snap]_vars

\* C28: a sweep dispatches the removal of the staging bytes of an expired id
\* only after the deletion of its row has been committed, and returns its
\* count without waiting for the removals: the call that deleted rows returns
\* their number with every staging object still in place, and no step of the
\* sweeper removes or changes a staging object whose row exists.
C28_SweepCountsThenRemoves ==
  [][/\ (sweeper.pc = "delete" /\ sweeper'.pc # "delete" /\ res'.kind # "Error") =>
          /\ res' = RetCount(Cardinality(DOMAIN staging_files \ DOMAIN staging_files'))
          /\ staging_dir' = staging_dir
     /\ sweeper' # sweeper =>
          \A id \in (DOMAIN staging_dir) \cap (DOMAIN staging_files) :
            id \in DOMAIN staging_dir' /\ staging_dir'[id] = staging_dir[id]]_vars

\* C29: a sweep removes staging bytes only for ids whose rows that same sweep
\* deleted.  An id that was promoted or cancelled between the SELECT of the
\* expired ids and the DELETE is not among the deleted rows and is not
\* counted, no step of the sweeper touches its bytes, the bytes of an upload
\* that is being promoted, or a resident object.
SweepDeleted == DOMAIN staging_files \ DOMAIN staging_files'
C29_SweepOnlyTouchesWhatItDeleted ==
  [][sweeper' # sweeper =>
       /\ resident_dir' = resident_dir /\ files' = files
       /\ \A id \in DOMAIN staging_dir :
            (id \notin DOMAIN staging_dir' \/ staging_dir'[id] # staging_dir[id])
              => id \in SweepDeleted
       /\ SweepDeleted \subseteq Range_(sweeper.ids) \ DOMAIN row_lock
       /\ (sweeper.pc = "delete" /\ sweeper'.pc # "delete" /\ res'.kind # "Error") =>
            /\ SweepDeleted = Range_(sweeper.ids) \cap DOMAIN staging_files
            /\ res'.kind = "Count" => res'.size = Cardinality(SweepDeleted)
            /\ SweepDeleted = {} => res' = RetCount(0) /\ staging_dir' = staging_dir]_vars

\* the upload that the sweep selected was promoted before the sweep's DELETE
C29_Witness ==
  /\ sweeper.pc = "delete"
  /\ "u1" \in Range_(sweeper.ids)
  /\ "u1" \notin DOMAIN staging_files
  /\ "u1" \in DOMAIN files
  /\ "u1" \in DOMAIN resident_dir

\* C30: the size that a successful write_staging returns, which is the size
\* stored in the StagingFile row, is never negative and never above i64::MAX.
C30_SizeFitsI64 ==
  (res.op = "write_staging" /\ res.kind = "Size") =>
    0 <= res.size /\ res.size <= I64_MAX

\* C31: no staging bytes are leaked.  In every quiescent state (no request
\* in flight, the sweeper not inside a sweep, no removal task pending) that
\* is reached without any file operation having failed, every object of the
\* staging directory belongs to an existing StagingFile row.
Quiescent ==
  /\ \A p \in Procs : pc[p] = "idle"
  /\ sweeper.pc \notin {"select", "delete"}
Leaked == DOMAIN staging_dir \ DOMAIN staging_files
C31_NoStagingBytesLeaked == Quiescent => Leaked = {}

\* C32: for every id, a StagingFile row and a File row never exist at the
\* same time in committed database state, and a File row is only ever
\* created by a promotion that consumed the StagingFile row of that id: the
\* step that makes the File row visible is the COMMIT of a promotion of that
\* id, which held the row, removes it in the same step and returns the File.
C32_FileRowReplacesStagingRow ==
  [][/\ DOMAIN staging_files \cap DOMAIN files = {}
     /\ DOMAIN staging_files' \cap DOMAIN files' = {}
     /\ \A id \in DOMAIN files' \ DOMAIN files :
          \E p \in Procs :
            /\ Returns(p, "promote_commit")
            /\ loc[p].id = id
            /\ id \in DOMAIN row_lock /\ row_lock[id] = p
            /\ id \in DOMAIN staging_files /\ loc[p].row = staging_files[id]
            /\ id \notin DOMAIN staging_files'
            /\ res' = RetFile("promote", id, files'[id])]_vars

\* a promotion has committed: the File row took the place of the staging row
C32_Witness ==
  /\ res.op = "promote" /\ res.kind = "File"
  /\ res.id \in DOMAIN files
  /\ res.id \notin DOMAIN staging_files
  /\ inserted[res.id] = 1

\* C33: when write_staging fails with an I/O error (WriteError::Write), the
\* size it reports is the actual length of the staging object after the
\* attempt, whichever step failed (open, stat, seek or the copy partway).
C33_WriteErrorReportsActualSize ==
  (res.op = "write_staging" /\ res.kind = "WriteError" /\ res.err = "Write") =>
    res.size = Len(Content(staging_dir, res.id))

\* C34: for every suffix request `bytes=-n` that the range parser accepts
\* (n >= 1 representable as i64), the data endpoint returns the last
\* min(n, file_size) bytes of the file: the conversion of the parsed value
\* to the driver's Suffix length loses nothing.
SuffixAsked(r) ==
  /\ r.op = "get_file_data"
  /\ r.header.present
  /\ RangeHeader(r.header).ok
  /\ RangeHeader(r.header).some /\ ~RangeHeader(r.header).has_end
  /\ RangeHeader(r.header).start < 0
LastBytes(content, n) ==
  SubSeq(content, Len(content) - Min(n, Len(content)) + 1, Len(content))
C34_SuffixOfAnyLength ==
  (SuffixAsked(res) /\ res.status = 206) =>
    /\ res.id \in DOMAIN resident_dir
    /\ res.data = LastBytes(resident_dir[res.id], 0 - RangeHeader(res.header).start)

\* C35: every Range(start, end) that reaches the storage driver through the
\* file-data endpoint satisfies 0 <= start <= end, so that the driver's
\* end - start + 1 never underflows; a Range header with a negative bound
\* or with end < start never reaches the read: it is answered 400 (unless
\* the session guard, which runs first, has refused the request).
Inverted ==
  {<<"1", "-", "0">>, <<"2", "-", "0">>, <<"2", "-", "1">>, <<"3", "-", "0">>,
   <<"3", "-", "1">>, <<"3", "-", "2">>, <<"1", "0", "-", "0">>, <<"1", "0", "-", "1">>,
   <<"1", "0", "-", "2">>, <<"1", "0", "-", "3">>}
NegativeBound == {<<"1", "-", "-", "2">>, <<"-", "-", "1">>, <<"-", "1", "-">>}
BadBounds == {Header(BytesEq \o r) : r \in Inverted \cup NegativeBound}
C35_DriverRangeIsOrdered ==
  /\ \A p \in Procs :
       pc[p] = "get_file_data" =>
         /\ loc[p].header \notin BadBounds
         /\ LET read_range == ReadRangeOf(RangeHeader(loc[p].header)) IN
              read_range.kind = "Range" =>
                /\ 0 <= read_range.start /\ read_range.start <= read_range.end
                /\ TakeLen(read_range.start, read_range.end, U64_MAX)
                     = read_range.end - read_range.start + 1
  /\ (res.op = "get_file_data" /\ res.header \in BadBounds) =>
       /\ res.refused \in {"session", "range"}
       /\ res.refused = "range" => res.status = 400

\* the range 1-1, whose two ends are the same, was read from a file of two
\* bytes: one byte, as partial content
C35_Witness ==
  /\ res.op = "get_file_data"
  /\ res.header = Header(BytesEq \o <<"1", "-", "1">>)
  /\ res.status = 206
  /\ res.id \in DOMAIN resident_dir
  /\ Len(resident_dir[res.id]) = 2
  /\ res.data = <<resident_dir[res.id][2]>>

\* C36: a fill never shortens a staging object and never changes bytes
\* outside the written window: when write_staging has succeeded with data D
\* at offset o on an object of length n, the new length is max(n, o + |D|)
\* and the bytes [0, o) and [o + |D|, n) are as before; consequently the
\* recorded size of a staging file never decreases over its lifetime.
FillStep(p) == pc[p] \in FillPcs \/ pc'[p] \in FillPcs
Written(p) == pc[p] = "fill_copy" /\ pc'[p] = "fill_update"
FillKeepsTheRest(p) ==
  LET id == loc[p].id
      o == loc[p].offset
      D == loc'[p].data
      before == Content(staging_dir, id)
      after == Content(staging_dir', id)
  IN  /\ FillStep(p) => Len(before) <= Len(after)
      /\ Written(p) =>
           /\ Len(after) = Max(Len(before), o + Len(D))
           /\ \A i \in 1..Len(before) :
                (i <= o \/ o + Len(D) < i) => after[i] = before[i]
SizeNeverDecreases ==
  \A id \in DOMAIN staging_files \cap DOMAIN staging_files' :
    staging_files[id].size <= staging_files'[id].size
C36_FillOnlyGrows ==
  [][(\A p \in Procs : FillKeepsTheRest(p)) /\ SizeNeverDecreases]_vars

\* C37: a failed sweep never stops the sweeper.  When
\* remove_expired_staging_files returns an error the error is swallowed: no
\* row, object or request is touched by it, the loop goes back to sleep for
\* one full period (it ends only if the stop signal has been sent), and,
\* when the period has elapsed, the next sweep starts.
SweepReturnsError ==
  /\ sweeper.pc \in {"select", "delete"} /\ sweeper'.pc \notin {"select", "delete"}
  /\ res'.op = "sweep" /\ res'.kind = "Error"
AfterFailedSweep ==
  /\ res.op = "sweep" /\ res.kind = "Error"
  /\ sweeper.pc = "sleeping"
  /\ ~shutdown.stop_signal
C37_FailedSweepIsRetried ==
  /\ [][(SweepReturnsError =>
            /\ UNCHANGED <<staging_files, files, staging_dir, resident_dir, row_lock,
                           pc, loc, shutdown>>
            /\ sweeper'.pc \in {"sleeping", "stopped"}
            /\ (sweeper'.pc = "stopped") <=> shutdown.stop_signal
            /\ (sweeper'.pc = "sleeping") => (sweeper'.sleep_left = Period))
        /\ ((sweeper.pc = "sleeping" /\ sweeper'.pc = "select")
              => sweeper.sleep_left = 0)]_vars
  /\ AfterFailedSweep ~> (sweeper.pc = "select" \/ shutdown.stop_signal)

\* a sweep failed, the period went by and the next sweep has started
C37_Witness ==
  /\ res.op = "sweep" /\ res.kind = "Error"
  /\ sweeper.pc = "select"
  /\ ~shutdown.stop_signal
  /\ now >= 2 * Period
====
